---- MODULE Spec2Model ----
(***************************************************************************)
(* munotes: notes, chords and note collections as state machines.          *)
(*                                                                         *)
(* Strings are sequences of one-character strings, so that the formatting  *)
(* and parsing functions are computed character by character as the code   *)
(* does.  The characters U+266F and U+266D stand for the unicode sharp and *)
(* flat signs.  A frequency is kept exactly, as b * 2^(e/12), written      *)
(* [b |-> b, e |-> e]: every frequency the code computes is a tuning       *)
(* frequency multiplied or divided by 2^((num - 69)/12).                   *)
(***************************************************************************)
EXTENDS Integers, Sequences, FiniteSets, TLC

VARIABLES
    mode,       \* which part of the library this run exercises
    call,       \* the last call of a formatting function: its arguments and result
    note,       \* a Note object bound to a name of the caller
    last,       \* the last operation on an object: its arguments, whether it raised
    chord,      \* a Chord object
    heap,       \* Note and Rest objects that containers refer to, by identity
    notesObj,   \* a Notes object over objects of the heap
    track,      \* a Track object over objects of the heap
    envelopes   \* the Envelope objects, by identity; 0 is the one of the class

vars == <<mode, call, note, last, chord, heap, notesObj, track, envelopes>>

(***************************************************************************)
(* Program constants.                                                      *)
(***************************************************************************)
NUM_C0 == 12

NUM_A4 == 69

MIDI_MAX == 127

DEFAULT_OCTAVE == 4

DEFAULT_A4 == 440

KEY_NAMES ==
    << <<"C">>, <<"C", "#">>, <<"D">>, <<"D", "#">>, <<"E">>, <<"F">>,
       <<"F", "#">>, <<"G">>, <<"G", "#">>, <<"A">>, <<"A", "#">>, <<"B">> >>

\* The chord-type table, chord type -> offsets from the root: some of the
\* built-in types, and two types a user registered, "black" of the Chord
\* docstring and "x", a voicing that leaves the root out.
chord_names ==
    [t \in { <<>>, <<"m">>, <<"m", "7">>, <<"b", "l", "a", "c", "k">>, <<"x">> } |->
        CASE t = <<>> -> <<0, 4, 7>>
          [] t = <<"m">> -> <<0, 3, 7>>
          [] t = <<"m", "7">> -> <<0, 3, 7, 10>>
          [] t = <<"b", "l", "a", "c", "k">> -> <<0, 1, 2, 3, 4>>
          [] OTHER -> <<4, 7>>]

(***************************************************************************)
(* Characters.                                                             *)
(***************************************************************************)
UpperLetters == <<"A", "B", "C", "D", "E", "F", "G", "H">>

LowerLetters == <<"a", "b", "c", "d", "e", "f", "g", "h">>

Digits == <<"0", "1", "2", "3", "4", "5", "6", "7", "8", "9">>

IsDigit(c) == \E i \in 1..10 : Digits[i] = c

DigitVal(c) == (CHOOSE i \in 1..10 : Digits[i] = c) - 1

\* str.upper() on one character
Upper(c) ==
    IF \E i \in 1..Len(LowerLetters) : LowerLetters[i] = c
    THEN UpperLetters[CHOOSE i \in 1..Len(LowerLetters) : LowerLetters[i] = c]
    ELSE c

\* str.replace(old, new) for one-character old and new
Replace(s, old, new) == [i \in 1..Len(s) |-> IF s[i] = old THEN new ELSE s[i]]

Contains(s, c) == \E i \in 1..Len(s) : s[i] = c

\* s[:n] and s[n:] of Python
Prefix(s, n) == SubSeq(s, 1, IF n < Len(s) THEN n ELSE Len(s))

Suffix(s, n) == SubSeq(s, n + 1, Len(s))

IsNoteLetter(c) == c \in {"A", "B", "C", "D", "E", "F", "G"}

RECURSIVE IntOfDigits(_)
IntOfDigits(s) ==
    IF s = <<>> THEN 0
    ELSE 10 * IntOfDigits(SubSeq(s, 1, Len(s) - 1)) + DigitVal(s[Len(s)])

AllDigits(s) == \A i \in 1..Len(s) : IsDigit(s[i])

Fail(why) == [ok |-> FALSE, err |-> why]

(***************************************************************************)
(* name_strings.py / _utils.py: string_formatting (the two are the same).  *)
(***************************************************************************)
ReplaceAccidentals(s) ==
    Replace(Replace(Replace(Replace(s, "+", "#"), "U+266F", "#"), "-", "b"),
            "U+266D", "b")

string_formatting(s) ==
    ReplaceAccidentals(<<Upper(s[1])>> \o Suffix(s, 1))

(***************************************************************************)
(* src/note.py: nname_formatting upper-cases the whole string.             *)
(***************************************************************************)
nname_formatting(s) ==
    ReplaceAccidentals([i \in 1..Len(s) |-> Upper(s[i])])

\* src/note.py check_nname(nname, return_nname=True)
check_nname(s) ==
    IF s = <<>> THEN Fail("Note name is empty")
    ELSE IF Len(s) > 2 THEN Fail("Note name is too long")
    ELSE LET n == nname_formatting(s) IN
         IF ~IsNoteLetter(n[1]) THEN Fail("letter")
         ELSE IF Len(n) = 2 /\ n[2] \notin {"#", "b"} THEN Fail("accidental")
         ELSE [ok |-> TRUE, name |-> n]

(***************************************************************************)
(* _utils.py: note_name_formatting.                                        *)
(***************************************************************************)
NoteBorder(form) == IF Contains(form, "#") \/ Contains(form, "b") THEN 2 ELSE 1

OctaveOrArg(octave_str, octave) ==
    IF octave_str = <<>>
    THEN IF octave = 0 THEN Fail("Octave is not specified.")
         ELSE [ok |-> TRUE, octave |-> octave]
    ELSE IF ~AllDigits(octave_str) THEN Fail("int()")
         ELSE [ok |-> TRUE, octave |-> IntOfDigits(octave_str)]

note_name_formatting(s, octave) ==
    LET form == string_formatting(s) IN
    IF ~IsNoteLetter(form[1]) THEN Fail("invalid")
    ELSE LET border == NoteBorder(form)
             pitch_name == Prefix(form, border)
             octave_str == Suffix(form, border)
             o == OctaveOrArg(octave_str, octave)
         IN  IF o.ok THEN [ok |-> TRUE, name |-> pitch_name, octave |-> o.octave]
             ELSE o

(***************************************************************************)
(* name_strings.py: note_name_formatting, the one notes.py imports.  The   *)
(* name is cut to its first `border` characters before the octave string   *)
(* is taken from it.                                                       *)
(***************************************************************************)
ns_note_name_formatting(s, octave) ==
    LET form == string_formatting(s) IN
    IF ~IsNoteLetter(form[1]) THEN Fail("invalid")
    ELSE LET border == NoteBorder(form)
             note_name == Prefix(form, border)
             octave_str == Suffix(note_name, border)
             o == OctaveOrArg(octave_str, octave)
         IN  IF o.ok THEN [ok |-> TRUE, name |-> note_name, octave |-> o.octave]
             ELSE o

(***************************************************************************)
(* _utils.py: chord_name_formatting.  NoType stands for type=None.         *)
(***************************************************************************)
NoType == <<"None">>

NoteNameEnd(form) ==
    IF Len(form) >= 2 /\ form[2] \in {"#", "b"} THEN 2 ELSE 1

\* chord_name_formatting that tests the type's truth: '' falls to the suffix
chord_name_formatting_Truthy(s, type) ==
    LET form == string_formatting(s) IN
    IF ~IsNoteLetter(form[1]) THEN Fail("invalid string")
    ELSE LET border == NoteNameEnd(form)
             root_name == Prefix(form, border)
             t == IF type # NoType /\ type # <<>> THEN type
                  ELSE Suffix(form, border)
         IN  IF t \in DOMAIN chord_names
             THEN [ok |-> TRUE, root_name |-> root_name, type |-> t]
             ELSE Fail("invalid chord type")

chord_name_formatting(s, type) ==
    LET form == string_formatting(s) IN
    IF ~IsNoteLetter(form[1]) THEN Fail("invalid string")
    ELSE LET border == NoteNameEnd(form)
             root_name == Prefix(form, border)
             t == IF type # NoType THEN type ELSE Suffix(form, border)
         IN  IF t \in DOMAIN chord_names
             THEN [ok |-> TRUE, root_name |-> root_name, type |-> t]
             ELSE Fail("invalid chord type")

(***************************************************************************)
(* Frequencies: [b, e] is b * 2^(e/12).                                    *)
(***************************************************************************)
Hz(b) == [b |-> b, e |-> 0]

\* A4 * 2**((num - NUM_A4)/12)
FreqOf(A4, num) == [b |-> A4.b, e |-> A4.e + (num - NUM_A4)]

\* value / 2**((num - NUM_A4)/12)
BackSolve(value, num) == [b |-> value.b, e |-> value.e - (num - NUM_A4)]

(***************************************************************************)
(* notes.py: class Note.  A Note is a record; NoObj is an unbound name.    *)
(***************************************************************************)
NoObj == [kind |-> "None"]

IsNote(o) == o.kind = "Note"

KeyIndex(letter) == (CHOOSE i \in 1..12 : KEY_NAMES[i] = <<letter>>) - 1

Bit(b) == IF b THEN 1 ELSE 0

\* Note._return_name_idx
return_name_idx(name) ==
    (KeyIndex(name[1]) + Bit(Contains(name, "#")) - Bit(Contains(name, "b"))) % 12

FormatNoteName(fmt, s, octave) ==
    IF fmt = "_utils" THEN note_name_formatting(s, octave)
    ELSE ns_note_name_formatting(s, octave)

\* Note.__init__ with a string query: no check of the resulting number
NoteFromName(fmt, s, octave, A4) ==
    LET r == FormatNoteName(fmt, s, octave) IN
    IF ~r.ok THEN r
    ELSE LET idx == return_name_idx(r.name)
             num == NUM_C0 + 12 * r.octave + idx
         IN  [ok |-> TRUE,
              obj |-> [kind |-> "Note", name |-> r.name, octave |-> r.octave,
                       idx |-> idx, num |-> num, A4 |-> A4,
                       freq |-> FreqOf(A4, num)]]

\* Note.__init__ with an integer query
NoteFromInt(q, A4) ==
    IF ~(0 <= q /\ q <= MIDI_MAX) THEN Fail("MIDI note number must be in 0 ~ 127")
    ELSE LET name == KEY_NAMES[((q - NUM_C0) % 12) + 1] IN
         [ok |-> TRUE,
          obj |-> [kind |-> "Note", name |-> name,
                   octave |-> (q - NUM_C0) \div 12,
                   idx |-> return_name_idx(name), num |-> q, A4 |-> A4,
                   freq |-> FreqOf(A4, q)]]

\* Note.transpose that forgets to recompute the octave
TransposeOne_StaleOctave(n, k) ==
    LET idx == (n.idx + k) % 12
        num == n.num + k
    IN  [n EXCEPT !.idx = idx, !.name = KEY_NAMES[idx + 1], !.num = num,
                  !.freq = FreqOf(n.A4, num)]

\* the body of the loop of Note.transpose, for one note
TransposeOne(n, k) ==
    LET idx == (n.idx + k) % 12
        num == n.num + k
    IN  [n EXCEPT !.idx = idx, !.name = KEY_NAMES[idx + 1], !.num = num,
                  !.octave = (num - NUM_C0) \div 12,
                  !.freq = FreqOf(n.A4, num)]

\* the body of the loop of BaseNotes.transpose: `if not note.num: continue`
BaseTransposeOne(n, k) ==
    IF ~IsNote(n) \/ n.num = 0 THEN n ELSE TransposeOne(n, k)

\* the octave setter: transpose(12 * (value - self.octave))
SetOctaveOne(n, value) == TransposeOne(n, 12 * (value - n.octave))

(***************************************************************************)
(* str(int), for Note.__str__.                                             *)
(***************************************************************************)
RECURSIVE StrOfNat(_)
StrOfNat(n) ==
    IF n < 10 THEN <<Digits[n + 1]>>
    ELSE StrOfNat(n \div 10) \o <<Digits[(n % 10) + 1]>>

StrOfInt(n) == IF n < 0 THEN <<"-">> \o StrOfNat(-n) ELSE StrOfNat(n)

\* Note.__str__
NoteStr(n) == n.name \o StrOfInt(n.octave)

(***************************************************************************)
(* notes.py: the A4 and freq setters and tuning of one note.               *)
(***************************************************************************)
\* an A4 setter that leaves the frequency as it was
SetA4One_StaleFreq(n, value) == [n EXCEPT !.A4 = value]

\* the body of the loop of the A4 setter
SetA4One(n, value) == [n EXCEPT !.A4 = value, !.freq = FreqOf(value, n.num)]

\* the body of the loop of the freq setter: note.A4 = value / 2**(...)
SetFreqOne(n, value) == SetA4One(n, BackSolve(value, n.num))

\* Note.tuning(freq, stand_A4) on a single note
\* the default of stand_A4 in Note.tuning of notes.py
NOTE_TUNING_STAND_A4 == FALSE

\* the default of stand_A4 in BaseNotes.tuning of _base.py
BASE_TUNING_STAND_A4 == TRUE

\* the stand_A4 a call runs with: the keyword given, or the default
StandOf(given, default) == IF given = "omitted" THEN default ELSE given = "True"

TuningOne(n, freq, stand_A4) ==
    IF stand_A4 THEN SetA4One(n, freq) ELSE SetFreqOne(n, freq)

\* the body of the loop of BaseNotes.tuning, for one note of a single-note object
BaseTuningOne(n, freq, stand_A4) ==
    IF stand_A4 THEN [n EXCEPT !.A4 = freq, !.freq = FreqOf(freq, n.num)]
    ELSE [n EXCEPT !.freq = freq, !.A4 = BackSolve(freq, n.num)]

(***************************************************************************)
(* notes.py: class Notes over a list of Note records, and class Chord.     *)
(***************************************************************************)
RECURSIVE InsertByNum(_, _)
InsertByNum(sorted, n) ==
    IF sorted = <<>> THEN <<n>>
    ELSE IF sorted[Len(sorted)].num <= n.num THEN Append(sorted, n)
    ELSE Append(InsertByNum(SubSeq(sorted, 1, Len(sorted) - 1), n),
                sorted[Len(sorted)])

\* sorted(notes_, key=lambda note: note.num), a stable sort
RECURSIVE SortByNum(_)
SortByNum(ns) ==
    IF ns = <<>> THEN <<>>
    ELSE InsertByNum(SortByNum(SubSeq(ns, 1, Len(ns) - 1)), ns[Len(ns)])

\* Chord.root when it is the chord's own object (rootRef = 0) or a member
ChordRoot(c) == IF c.rootRef = 0 THEN c.rootObj ELSE c.notes[c.rootRef]

\* the idxs of the root setter
ChordIdxs(root, interval) ==
    [i \in 1..Len(interval) |-> (root.idx + interval[i]) % 12]

\* Notes.__init__ over integers: Note(q) for each, sorted by number, the
\* names, fullnames and nums taken, then self.A4 = A4 over the members
MembersFromInts(qs, A4) ==
    LET sorted == SortByNum([i \in 1..Len(qs) |-> NoteFromInt(qs[i], Hz(DEFAULT_A4)).obj])
    IN  [notes |-> [i \in 1..Len(sorted) |-> SetA4One(sorted[i], A4)],
         names |-> [i \in 1..Len(sorted) |-> sorted[i].name],
         fullnames |-> [i \in 1..Len(sorted) |-> NoteStr(sorted[i])],
         nums |-> [i \in 1..Len(sorted) |-> sorted[i].num]]

\* the attributes Chord.__init__ sets, given the root Note
ChordOfRoot(root, type, A4) ==
    LET interval == chord_names[type]
        qs == [i \in 1..Len(interval) |-> root.num + interval[i]]
    IN  IF \E i \in 1..Len(qs) : ~NoteFromInt(qs[i], Hz(DEFAULT_A4)).ok
        THEN Fail("MIDI note number must be in 0 ~ 127")
        ELSE [ok |-> TRUE,
              obj |-> [kind |-> "Chord", name |-> root.name \o type,
                       type |-> type, interval |-> interval,
                       rootRef |-> 0, rootObj |-> root,
                       idxs |-> ChordIdxs(root, interval), A4 |-> A4,
                       notes |-> MembersFromInts(qs, A4).notes,
                       names |-> MembersFromInts(qs, A4).names,
                       fullnames |-> MembersFromInts(qs, A4).fullnames,
                       nums |-> MembersFromInts(qs, A4).nums]]

\* the root of Chord.__init__: Note(root_name, octave), with the default A4
ChordRootOf(f, octave) ==
    NoteFromName("name_strings", f.root_name, octave, Hz(DEFAULT_A4))

\* Chord.__init__
NewChordObj(s, type, octave, A4) ==
    LET f == chord_name_formatting(s, type) IN
    IF ~f.ok THEN f
    ELSE IF ~ChordRootOf(f, octave).ok THEN ChordRootOf(f, octave)
    ELSE ChordOfRoot(ChordRootOf(f, octave).obj, f.type, A4)

\* Chord.transpose: Notes.transpose over the members, then root = notes[0]
ChordTransposeObj(c, k) ==
    LET notes == [i \in 1..Len(c.notes) |-> TransposeOne(c.notes[i], k)]
        root == notes[1]
    IN  [c EXCEPT !.notes = notes,
                  !.names = [i \in 1..Len(notes) |-> notes[i].name],
                  !.nums = [i \in 1..Len(notes) |-> notes[i].num],
                  !.rootRef = 1,
                  !.name = root.name \o c.type,
                  !.idxs = ChordIdxs(root, c.interval)]

\* Notes.tuning(A4_freq): self.A4 = A4_freq, the A4 setter over the members
ChordTuningObj(c, value) ==
    [c EXCEPT !.A4 = value,
              !.notes = [i \in 1..Len(c.notes) |-> SetA4One(c.notes[i], value)]]

(***************************************************************************)
(* notes.py: class Rest; Notes and Track over objects of the heap.  A      *)
(* container holds references (heap indices): the same object may be in    *)
(* several containers, or several times in one.                            *)
(***************************************************************************)
\* Rest.__init__
RestObj == [kind |-> "Rest", name |-> <<"Rest">>, A4 |-> Hz(DEFAULT_A4), freq |-> Hz(0)]

IsRest(o) == o.kind = "Rest"

\* sorted(notes_, key=lambda note: note.num) over references
RECURSIVE InsertRef(_, _, _)
InsertRef(h, sorted, r) ==
    IF sorted = <<>> THEN <<r>>
    ELSE IF h[sorted[Len(sorted)]].num <= h[r].num THEN Append(sorted, r)
    ELSE Append(InsertRef(h, SubSeq(sorted, 1, Len(sorted) - 1), r),
                sorted[Len(sorted)])

RECURSIVE SortRefs(_, _)
SortRefs(h, refs) ==
    IF refs = <<>> THEN <<>>
    ELSE InsertRef(h, SortRefs(h, SubSeq(refs, 1, Len(refs) - 1)), refs[Len(refs)])

\* for note in self._notes: the loop body of Note.transpose, in list order
RECURSIVE TransposeRefs(_, _, _)
TransposeRefs(h, refs, k) ==
    IF refs = <<>> THEN h
    ELSE TransposeRefs([h EXCEPT ![refs[1]] = TransposeOne(h[refs[1]], k)],
                       Tail(refs), k)

\* for note in self._notes: the loop body of BaseNotes.transpose
RECURSIVE BaseTransposeRefs(_, _, _)
BaseTransposeRefs(h, refs, k) ==
    IF refs = <<>> THEN h
    ELSE BaseTransposeRefs([h EXCEPT ![refs[1]] = BaseTransposeOne(h[refs[1]], k)],
                           Tail(refs), k)

\* for note in self._notes: the loop body of the A4 setter of Note
RECURSIVE SetA4Refs(_, _, _)
SetA4Refs(h, refs, value) ==
    IF refs = <<>> THEN h
    ELSE SetA4Refs([h EXCEPT ![refs[1]] = SetA4One(h[refs[1]], value)],
                   Tail(refs), value)

\* for note in self._notes: the loop body of the freq setter of Note
RECURSIVE SetFreqRefs(_, _, _)
SetFreqRefs(h, refs, value) ==
    IF refs = <<>> THEN h
    ELSE SetFreqRefs([h EXCEPT ![refs[1]] = SetFreqOne(h[refs[1]], value)],
                     Tail(refs), value)

\* for note in self._notes: the loop body of BaseNotes.tuning
RECURSIVE BaseTuningRefs(_, _, _, _)
BaseTuningRefs(h, refs, freq, stand_A4) ==
    IF refs = <<>> THEN h
    ELSE BaseTuningRefs(
             [h EXCEPT ![refs[1]] = BaseTuningOne(h[refs[1]], freq, stand_A4)],
             Tail(refs), freq, stand_A4)

\* Notes.__init__ over Note and Rest objects.  A Rest has num None: sorted()
\* raises when it has to compare it; alone in the list it is taken, and the
\* A4 setter raises on it after it has set its _A4.
NotesInit(h, refs, A4) ==
    IF \E i \in 1..Len(refs) : IsRest(h[refs[i]])
    THEN [ok |-> FALSE,
          heap |-> IF Len(refs) = 1
                   THEN [h EXCEPT ![refs[1]] = [@ EXCEPT !.A4 = A4]]
                   ELSE h]
    ELSE LET sorted == SortRefs(h, refs) IN
         [ok |-> TRUE,
          heap |-> SetA4Refs(h, sorted, A4),
          obj |-> [kind |-> "Notes", refs |-> sorted,
                   names |-> [i \in 1..Len(sorted) |-> h[sorted[i]].name],
                   fullnames |-> [i \in 1..Len(sorted) |-> NoteStr(h[sorted[i]])],
                   nums |-> [i \in 1..Len(sorted) |-> h[sorted[i]].num],
                   A4 |-> A4]]

\* the names and nums Notes.transpose takes again from the notes
NotesRefresh(ns, h) ==
    [ns EXCEPT !.names = [i \in 1..Len(ns.refs) |-> h[ns.refs[i]].name],
               !.nums = [i \in 1..Len(ns.refs) |-> h[ns.refs[i]].num]]

\* An event of a Track is a heap index, or 0 for the Notes object.
EventRefs(ns, e) == IF e = 0 THEN ns.refs ELSE <<e>>

\* the objects a Track reaches, in the order its loops visit them
RECURSIVE TrackRefs(_, _)
TrackRefs(ns, events) ==
    IF events = <<>> THEN <<>>
    ELSE EventRefs(ns, events[1]) \o TrackRefs(ns, Tail(events))

\* note.transpose(k) by the class of the event, on the heap st.h and the
\* Notes object st.ns: Rest.transpose is `pass`, Notes.transpose takes the
\* names and nums again
EventTranspose(st, e, k) ==
    IF e = 0
    THEN [h |-> TransposeRefs(st.h, st.ns.refs, k),
          ns |-> NotesRefresh(st.ns, TransposeRefs(st.h, st.ns.refs, k))]
    ELSE IF IsRest(st.h[e]) THEN st
    ELSE [st EXCEPT !.h[e] = TransposeOne(st.h[e], k)]

\* a Track.transpose whose loop ends at the first Rest it meets
RECURSIVE TrackTransposeFold_StopAtRest(_, _, _)
TrackTransposeFold_StopAtRest(st, events, k) ==
    IF events = <<>> THEN st
    ELSE IF events[1] # 0 /\ IsRest(st.h[events[1]]) THEN st
    ELSE TrackTransposeFold_StopAtRest(EventTranspose(st, events[1], k),
                                       Tail(events), k)

\* Track.transpose: for note, _ in self.sequence: note.transpose(semitone)
RECURSIVE TrackTransposeFold(_, _, _)
TrackTransposeFold(st, events, k) ==
    IF events = <<>> THEN st
    ELSE TrackTransposeFold(EventTranspose(st, events[1], k), Tail(events), k)

\* note.A4 = value by the class of the event: the A4 setter of Rest sets _A4
EventSetA4(st, e, value) ==
    IF e = 0
    THEN [h |-> SetA4Refs(st.h, st.ns.refs, value),
          ns |-> [st.ns EXCEPT !.A4 = value]]
    ELSE IF IsRest(st.h[e]) THEN [st EXCEPT !.h[e].A4 = value]
    ELSE [st EXCEPT !.h[e] = SetA4One(st.h[e], value)]

\* the A4 setter of Track: for note, _ in self.sequence: note.A4 = value
RECURSIVE TrackSetA4Fold(_, _, _)
TrackSetA4Fold(st, events, value) ==
    IF events = <<>> THEN st
    ELSE TrackSetA4Fold(EventSetA4(st, events[1], value), Tail(events), value)

HasNotesEvent(events) == \E i \in 1..Len(events) : events[i] = 0

(***************************************************************************)
(* Notes.__init__ over a list of items of any type.  An item is an object  *)
(* of the heap, the Notes object, an int, a str, or a value of another     *)
(* type; a member of the result is a reference to a heap object (ref) or a *)
(* Note built for an int or a str (ref = 0), with the object in obj.       *)
(***************************************************************************)
ObjItem(i) == [t |-> "obj", id |-> i]

NotesItem == [t |-> "notes"]

IntItem(q) == [t |-> "int", v |-> q]

StrItem(str) == [t |-> "str", v |-> str]

OtherItem == [t |-> "float"]

\* notes_.append(Note(note)) for an int
IntMember(q) ==
    IF NoteFromInt(q, Hz(DEFAULT_A4)).ok
    THEN [ok |-> TRUE, ms |-> <<[ref |-> 0, obj |-> NoteFromInt(q, Hz(DEFAULT_A4)).obj]>>]
    ELSE [ok |-> FALSE]

\* Note(note) for a str: the octave and A4 are the defaults
NoteOfStr(str) == NoteFromName("name_strings", str, DEFAULT_OCTAVE, Hz(DEFAULT_A4))

\* notes_.append(Note(note)) for a str
StrMember(str) ==
    IF NoteOfStr(str).ok
    THEN [ok |-> TRUE, ms |-> <<[ref |-> 0, obj |-> NoteOfStr(str).obj]>>]
    ELSE [ok |-> FALSE]

\* the body of `for note in notes`: notes_ += note._notes for a Note (a
\* Rest, a Notes), notes_.append(Note(note)) for a str or an int, and
\* ValueError for any other type
ItemMembers(h, ns, item) ==
    IF item.t = "obj"
    THEN [ok |-> TRUE, ms |-> <<[ref |-> item.id, obj |-> h[item.id]]>>]
    ELSE IF item.t = "notes"
    THEN [ok |-> TRUE,
          ms |-> [i \in 1..Len(ns.refs) |-> [ref |-> ns.refs[i], obj |-> h[ns.refs[i]]]]]
    ELSE IF item.t = "int" THEN IntMember(item.v)
    ELSE IF item.t = "str" THEN StrMember(item.v)
    ELSE [ok |-> FALSE]

\* a loop that passes over an item it cannot take
RECURSIVE FlatMembers_SkipUnsupported(_, _, _)
FlatMembers_SkipUnsupported(h, ns, items) ==
    IF items = <<>> THEN <<>>
    ELSE IF ~ItemMembers(h, ns, items[1]).ok
    THEN FlatMembers_SkipUnsupported(h, ns, Tail(items))
    ELSE ItemMembers(h, ns, items[1]).ms
         \o FlatMembers_SkipUnsupported(h, ns, Tail(items))

\* the loop `for note in notes`: the flat list notes_ (while no item fails)
RECURSIVE FlatMembers(_, _, _)
FlatMembers(h, ns, items) ==
    IF items = <<>> THEN <<>>
    ELSE IF ~ItemMembers(h, ns, items[1]).ok THEN <<>>
    ELSE ItemMembers(h, ns, items[1]).ms \o FlatMembers(h, ns, Tail(items))

\* an item of the list makes the loop raise
SomeItemFails(h, ns, items) ==
    \E i \in 1..Len(items) : ~ItemMembers(h, ns, items[i]).ok

\* sorted(notes_, key=lambda note: note.num) over members
RECURSIVE InsertMember(_, _)
InsertMember(sorted, m) ==
    IF sorted = <<>> THEN <<m>>
    ELSE IF sorted[Len(sorted)].obj.num <= m.obj.num THEN Append(sorted, m)
    ELSE Append(InsertMember(SubSeq(sorted, 1, Len(sorted) - 1), m),
                sorted[Len(sorted)])

RECURSIVE SortMembers(_)
SortMembers(ms) ==
    IF ms = <<>> THEN <<>>
    ELSE InsertMember(SortMembers(SubSeq(ms, 1, Len(ms) - 1)), ms[Len(ms)])

\* the heap objects among the members, in order
RECURSIVE MemberRefs(_)
MemberRefs(ms) ==
    IF ms = <<>> THEN <<>>
    ELSE IF ms[1].ref = 0 THEN MemberRefs(Tail(ms))
    ELSE <<ms[1].ref>> \o MemberRefs(Tail(ms))

\* the Notes object built over sorted members, after self.A4 = A4
NotesOverMembers(sorted, A4) ==
    [kind |-> "Notes",
     members |-> [i \in 1..Len(sorted) |->
                     [ref |-> sorted[i].ref, obj |-> SetA4One(sorted[i].obj, A4)]],
     names |-> [i \in 1..Len(sorted) |-> sorted[i].obj.name],
     fullnames |-> [i \in 1..Len(sorted) |-> NoteStr(sorted[i].obj)],
     nums |-> [i \in 1..Len(sorted) |-> sorted[i].obj.num],
     A4 |-> A4]

\* Notes.__init__ after the loop: a Rest among the members makes sorted()
\* raise, or, alone, the A4 setter after it has set the Rest's _A4
NotesOfMembers(h, ms, A4) ==
    IF \E i \in 1..Len(ms) : IsRest(ms[i].obj)
    THEN [ok |-> FALSE,
          heap |-> IF Len(ms) = 1 THEN [h EXCEPT ![ms[1].ref].A4 = A4] ELSE h]
    ELSE [ok |-> TRUE,
          heap |-> SetA4Refs(h, MemberRefs(SortMembers(ms)), A4),
          obj |-> NotesOverMembers(SortMembers(ms), A4)]

\* a Notes.__init__ whose loop passes over the items it cannot take
NotesOfItems_SkipUnsupported(h, ns, items, A4) ==
    NotesOfMembers(h, FlatMembers_SkipUnsupported(h, ns, items), A4)

\* Notes(notes, A4=A4) over a list: the loop, the sort and the A4 setter
NotesOfItems(h, ns, items, A4) ==
    IF SomeItemFails(h, ns, items) THEN [ok |-> FALSE, heap |-> h]
    ELSE NotesOfMembers(h, FlatMembers(h, ns, items), A4)

\* Notes(notes) with a Note (a Notes, a Rest) in place of the list: TypeError
NotesOfBare(h, item) == [ok |-> FALSE, heap |-> h]

(***************************************************************************)
(* Durations.  A duration and a number of seconds are kept exactly, as the *)
(* fraction [n |-> n, d |-> d] in lowest terms with d > 0.  An optional    *)
(* argument is None or Some(v).                                            *)
(***************************************************************************)
None == [some |-> FALSE]

Some(v) == [some |-> TRUE, v |-> v]

Abs(x) == IF x < 0 THEN -x ELSE x

RECURSIVE Gcd(_, _)
Gcd(a, b) == IF b = 0 THEN a ELSE Gcd(b, a % b)

\* the fraction n/d (d # 0) in lowest terms
Frac(n, d) ==
    IF n = 0 THEN [n |-> 0, d |-> 1]
    ELSE [n |-> (IF d < 0 THEN -n ELSE n) \div Gcd(Abs(n), Abs(d)),
          d |-> Abs(d) \div Gcd(Abs(n), Abs(d))]

FracMul(q, k) == Frac(q.n * k, q.d)

FracDiv(q, k) == Frac(q.n, q.d * k)

\* Python's `x or y` on an optional number: None and 0 are falsy
OrElse(x, y) == IF x.some /\ x.v # 0 THEN x ELSE y

\* `x if x is not None else y`
IfNone(x, y) == IF x.some THEN x.v ELSE y

\* Note.render: the seconds of a duration, from the arguments of the call
\* or, where they are None (for bpm: falsy), the attributes of the note
NoteRenderSec(self, duration, unit, bpm) ==
    IF IfNone(unit, self.unit) = "s"
    THEN [ok |-> TRUE, sec |-> IfNone(duration, self.duration)]
    ELSE IF IfNone(unit, self.unit) = "ms"
    THEN [ok |-> TRUE, sec |-> FracDiv(IfNone(duration, self.duration), 1000)]
    ELSE IF IfNone(unit, self.unit) # "ql"
    THEN Fail("unit must be in ['s', 'ms', 'ql']")
    ELSE IF ~OrElse(bpm, self.bpm).some THEN Fail("TypeError: / None")
    ELSE IF OrElse(bpm, self.bpm).v = 0 THEN Fail("ZeroDivisionError")
    ELSE [ok |-> TRUE,
          sec |-> FracDiv(FracMul(IfNone(duration, self.duration), 60),
                          OrElse(bpm, self.bpm).v)]

\* the attributes Note.__init__ keeps for rendering, with their defaults
NoteTiming(duration, unit, bpm) == [duration |-> duration, unit |-> unit, bpm |-> bpm]

DefaultNoteTiming == NoteTiming(Frac(1, 1), "s", Some(120))

SUPPORTED_UNITS == {"s", "ms", "ql"}

\* the checks of Track.__init__ on unit and bpm
TrackInitOk(unit, bpm) ==
    /\ unit \in SUPPORTED_UNITS
    /\ ~bpm.some => unit # "ql"
    /\ bpm.some => bpm.v > 0

\* Note.__init__ keeps duration, unit and bpm as they are given
NoteInitTiming(duration, unit, bpm) ==
    [ok |-> TRUE, obj |-> NoteTiming(duration, unit, bpm)]

\* Track.__init__: the checks, then the attributes
TrackInitTiming(unit, bpm) ==
    IF TrackInitOk(unit, bpm) THEN [ok |-> TRUE, obj |-> [unit |-> unit, bpm |-> bpm]]
    ELSE Fail("unit or bpm")

\* Track._to_sec
TrackToSec(self, duration) ==
    IF self.unit = "s" THEN [ok |-> TRUE, sec |-> duration]
    ELSE IF self.unit = "ms" THEN [ok |-> TRUE, sec |-> FracMul(duration, 1000)]
    ELSE IF ~self.bpm.some THEN Fail("TypeError: / None")
    ELSE IF self.bpm.v = 0 THEN Fail("ZeroDivisionError")
    ELSE [ok |-> TRUE, sec |-> FracDiv(FracMul(duration, 60), self.bpm.v)]

\* int(x) of a fraction: truncation towards zero
IntOf(q) == IF q.n >= 0 THEN q.n \div q.d ELSE -((-q.n) \div q.d)

\* a sample count that rounds the product to the nearest integer
SampleCount_Rounded(sec, sr) == (2 * sec.n * sr + sec.d) \div (2 * sec.d)

\* int(sr*sec): the number of samples of sec seconds at the sampling rate sr
SampleCount(sec, sr) == IntOf(FracMul(sec, sr))

\* Note._return_time_axis: np.linspace(0, 2*pi*sec*freqs, int(sr*sec), axis=1),
\* one row per member; sample j of n is kept as its place on the way to stop
TimeAxis(freqs, sec, sr) ==
    IF SampleCount(sec, sr) < 0
    THEN Fail("ValueError: Number of samples must be non-negative")
    ELSE [ok |-> TRUE,
          t |-> [i \in 1..Len(freqs) |->
                   [j \in 1..SampleCount(sec, sr) |->
                      [stop |-> [freq |-> freqs[i], sec |-> sec],
                       j |-> j, n |-> SampleCount(sec, sr)]]]]

WAVEFORMS == {"sin", "square", "sawtooth", "triangle"}

\* a sum over the rows that keeps the first row only
SumAxis0_FirstRow(waveform, t) ==
    [j \in 1..Len(t[1]) |-> <<[wave |-> waveform, at |-> t[1][j]]>>]

\* np.sum(wave(t), axis=0): sample j is the sum over the rows of t, kept as
\* the list of its terms in the order of the rows
SumAxis0(waveform, t) ==
    [j \in 1..Len(t[1]) |->
       [i \in 1..Len(t) |-> [wave |-> waveform, at |-> t[i][j]]]]

\* Note.render from the time axis on: the waveform is one of the four names
\* or a callable
RenderOfSec(freqs, waveform, sec, sr) ==
    IF ~TimeAxis(freqs, sec, sr).ok THEN TimeAxis(freqs, sec, sr)
    ELSE IF waveform \notin WAVEFORMS \cup {"callable"}
    THEN Fail("waveform string must be in ['sin', 'square', 'sawtooth', 'triangle']")
    ELSE [ok |-> TRUE, y |-> SumAxis0(waveform, TimeAxis(freqs, sec, sr).t)]

\* Note.render(waveform, duration, unit, bpm, sr) of an object whose members
\* have the frequencies freqs
NoteRender(freqs, self, waveform, duration, unit, bpm, sr) ==
    IF ~NoteRenderSec(self, duration, unit, bpm).ok
    THEN NoteRenderSec(self, duration, unit, bpm)
    ELSE RenderOfSec(freqs, waveform, NoteRenderSec(self, duration, unit, bpm).sec, sr)

\* Envelope.get_window: at = min(int(self.sr * self.attack), n)
AttackLen(env, n) == IF IntOf(FracMul(env.attack, env.sr)) < n
                     THEN IntOf(FracMul(env.attack, env.sr)) ELSE n

\* ht = min(int(self.sr * self.hold), n - at)
HoldLen(env, n) == IF IntOf(FracMul(env.hold, env.sr)) < n - AttackLen(env, n)
                   THEN IntOf(FracMul(env.hold, env.sr)) ELSE n - AttackLen(env, n)

\* a decay length that is not clamped to what is left of the n samples
DecayLen_Unclamped(env, n) == IntOf(FracMul(env.decay, env.sr))

\* dt = min(int(self.sr * self.decay), n - at - ht)
DecayLen(env, n) ==
    IF IntOf(FracMul(env.decay, env.sr)) < n - AttackLen(env, n) - HoldLen(env, n)
    THEN IntOf(FracMul(env.decay, env.sr))
    ELSE n - AttackLen(env, n) - HoldLen(env, n)

\* the segment of sample j of the window: the first at samples take the
\* attack curve, the dt samples from at + ht the decay curve, the samples
\* from at + ht + dt the sustain level; rt release samples are appended
WindowSegment(env, n, j) ==
    IF j > n THEN "release"
    ELSE IF j <= AttackLen(env, n) THEN "attack"
    ELSE IF j <= AttackLen(env, n) + HoldLen(env, n) THEN "hold"
    ELSE IF j <= AttackLen(env, n) + HoldLen(env, n) + DecayLen(env, n) THEN "decay"
    ELSE "sustain"

\* Envelope.get_window
get_window(env, sec) ==
    [ok |-> TRUE, n |-> SampleCount(sec, env.sr),
     at |-> AttackLen(env, SampleCount(sec, env.sr)),
     ht |-> HoldLen(env, SampleCount(sec, env.sr)),
     dt |-> DecayLen(env, SampleCount(sec, env.sr)),
     y |-> [j \in 1..(SampleCount(sec, env.sr) + IntOf(FracMul(env.release, env.sr)))
              |-> WindowSegment(env, SampleCount(sec, env.sr), j)]]

\* the sampling rate of Note.render when the call gives none
DEFAULT_SR == 22050

Min(a, b) == IF a < b THEN a ELSE b

\* np.linspace(1, 0, release)[m], m from 1
ReleaseWindow(release, m) ==
    IF release = 1 THEN Frac(1, 1) ELSE Frac(release - m, release - 1)

\* y_note[-release:] *= window: the samples of an event with their gains
FadeOut(y, release) ==
    [j \in 1..Len(y) |->
       [sample |-> y[j],
        gain |-> IF j > Len(y) - release
                 THEN ReleaseWindow(release, j - (Len(y) - release))
                 ELSE Frac(1, 1)]]

\* note.render(waveform, sec, sr) in Track._gen_y, as Note.render(waveform,
\* duration, unit, bpm, sr) binds it: sec is the duration and sr the unit
\* (a number: falsy when 0, else equal to no unit name); bpm and sr default
EventRender(self, waveform, duration, sr) ==
    NoteRender(<<FreqOf(Hz(DEFAULT_A4), NUM_A4)>>, DefaultNoteTiming, waveform,
               Some(TrackToSec(self, duration).sec),
               IF sr = 0 THEN None ELSE Some("int"), None, DEFAULT_SR)

\* Track._gen_y: the loop from event k on, y the buffer so far; release is
\* reassigned by each event
RECURSIVE GenY(_, _, _, _)
GenY(events, k, release, y) ==
    IF k > Len(events) THEN [ok |-> TRUE, y |-> y]
    ELSE IF ~events[k].ok THEN events[k]
    ELSE GenY(events, k + 1, Min(Len(events[k].y), release),
              y \o FadeOut(events[k].y, Min(Len(events[k].y), release)))

Max(a, b) == IF a < b THEN b ELSE a

\* Stream._gen_y: one waveform per track, from a name or callable (repeated)
\* or from a list, which must have one entry per track
StreamWaveforms(waveform, n_tracks) ==
    IF ~waveform.list THEN [ok |-> TRUE, ws |-> [k \in 1..n_tracks |-> waveform.w]]
    ELSE IF Len(waveform.ws) # n_tracks
    THEN Fail("If input multiple waveforms, its length must have the same as the number of tracks")
    ELSE [ok |-> TRUE, ws |-> waveform.ws]

\* Stream._gen_y: the loop from track k on, y the buffer so far; the shorter
\* of y and the track's buffer is padded with zeros, then y += y_track.
\* A sample is kept as the list of the track samples added into it
RECURSIVE StreamGenY(_, _, _)
StreamGenY(rendered, k, y) ==
    IF k > Len(rendered) THEN [ok |-> TRUE, y |-> y]
    ELSE IF ~rendered[k].ok THEN rendered[k]
    ELSE StreamGenY(rendered, k + 1,
           [i \in 1..Max(Len(y), Len(rendered[k].y)) |->
              (IF i <= Len(y) THEN y[i] ELSE <<>>)
              \o (IF i <= Len(rendered[k].y)
                  THEN <<[track |-> k, sample |-> rendered[k].y[i]]>>
                  ELSE <<>>)])

\* Rest.render: np.zeros_like(Note.render(...)). Rest.__init__ sets no
\* duration, unit or bpm, so Note.render raises AttributeError where it
\* falls back to one of them (duration None, unit falsy, bpm falsy)
RestRender(waveform, duration, unit, bpm, sr) ==
    IF ~duration.some THEN Fail("AttributeError: 'Rest' object has no attribute 'duration'")
    ELSE IF ~unit.some THEN Fail("AttributeError: 'Rest' object has no attribute 'unit'")
    ELSE IF ~(bpm.some /\ bpm.v # 0)
    THEN Fail("AttributeError: 'Rest' object has no attribute 'bpm'")
    ELSE IF ~NoteRender(<<Hz(0)>>, DefaultNoteTiming, waveform, duration, unit, bpm, sr).ok
    THEN NoteRender(<<Hz(0)>>, DefaultNoteTiming, waveform, duration, unit, bpm, sr)
    ELSE [ok |-> TRUE,
          y |-> [j \in 1..Len(NoteRender(<<Hz(0)>>, DefaultNoteTiming, waveform,
                                         duration, unit, bpm, sr).y) |-> <<>>]]

(***************************************************************************)
(* _base.py: BaseNotes._init_attrs and the envelope the objects share.     *)
(***************************************************************************)
\* Envelope(release=release, sr=sr), the other arguments at their defaults
Envelope(release, sr) ==
    [kind |-> "Envelope", attack |-> Frac(1, 100), decay |-> Frac(1, 10),
     sustain |-> Frac(1, 2), release |-> release, hold |-> Frac(0, 1), sr |-> sr]

\* envelope or self._default_envelope: the identity of the envelope the
\* object keeps; 0 is BaseNotes._default_envelope, made once for the class
EnvelopeOf(id, explicit) == IF explicit THEN id ELSE 0

\* self.envelope.sr = self.sr, on the envelope object the attribute refers to
InitAttrsEnvelopes(envs, id, explicit, sr) ==
    [envs EXCEPT ![EnvelopeOf(id, explicit)].sr = sr]

\* BaseNotes._init_attrs(envelope=..., sr=sr, A4=A4): the attributes of self
InitAttrsObj(envs, id, explicit, sr, A4) ==
    [kind |-> "BaseNotes", waveform |-> "sin", duration |-> Frac(1, 1),
     unit |-> "s", bpm |-> 120, sr |-> sr, A4 |-> A4,
     envelope |-> EnvelopeOf(id, explicit),
     release |-> envs[EnvelopeOf(id, explicit)].release]

(***************************************************************************)
(* notes.py: the comparison methods of Note, which Rest inherits.          *)
(***************************************************************************)
\* self.num: an int, or None for a Rest
NumOf(o) == IF IsRest(o) THEN None ELSE Some(o.num)

\* x == y between ints and None: None equals None only
PyEq(x, y) == [ok |-> TRUE, v |-> (x.some = y.some /\ (x.some => x.v = y.v))]

\* x < y, x <= y, x > y, x >= y between ints
IntRel(rel, x, y) ==
    IF rel = "<" THEN x < y
    ELSE IF rel = "<=" THEN x <= y
    ELSE IF rel = ">" THEN x > y
    ELSE x >= y

\* the same between ints and None: None has no order
PyOrder(rel, x, y) ==
    IF x.some /\ y.some THEN [ok |-> TRUE, v |-> IntRel(rel, x.v, y.v)]
    ELSE Fail("TypeError")

\* a reflection that keeps the relation as it is
Reflected_Same(rel) == rel

\* the method Python calls on the right operand when the left one returns
\* NotImplemented
Reflected(rel) ==
    IF rel = "<" THEN ">"
    ELSE IF rel = "<=" THEN ">="
    ELSE IF rel = ">" THEN "<"
    ELSE "<="

\* Note.__eq__
NoteEq(self, other) == PyEq(NumOf(self), NumOf(other))

\* Note.__lt__, __le__, __gt__, __ge__: self.num <rel> other has a number (or
\* None) on the left and a Note on the right, so the number's method returns
\* NotImplemented and Python calls the reflected method of other with
\* self.num, which compares other.num with self.num
NoteOrder(rel, self, other) == PyOrder(Reflected(rel), NumOf(other), NumOf(self))

NoteCompare(rel, self, other) ==
    IF rel = "==" THEN NoteEq(self, other) ELSE NoteOrder(rel, self, other)

(***************************************************************************)
(* Bounds and input sets.                                                  *)
(***************************************************************************)
\* a transposition is explored while its result stays within MaxOut of 0..127
MaxOut == 2

\* the objects of the heap
ObjIds == {1, 2}

\* number of operations on a Chord, its construction included
MaxOps == 3

\* number of operations on the heap and its containers
MaxSeqOps == 3

\* number of calls that build a collection
MaxCollOps == 2

Letters == {"A", "B", "C", "D", "E", "F", "G", "a", "b", "c", "d", "e", "f", "g"}

Sharps == { <<"#">>, <<"+">>, <<"U+266F">> }

Flats == { <<"b">>, <<"-">>, <<"U+266D">> }

Accidentals == { <<>> } \cup Sharps \cup Flats

OctaveStrs == { <<>>, <<"0">>, <<"5">>, <<"1", "0">> }

OctaveArgs == {-1, 0, DEFAULT_OCTAVE, 9}

Formatters == {"name_strings", "_utils"}

TransposeSteps == {-13, -12, -1, 1, 12, 13}

NoCall == [fn |-> "none"]

NoLast == [op |-> "none", ok |-> TRUE, n |-> 0]

SeqNums == {0, 60}

SeqSteps == {-1, 12}

SeqA4s == {Hz(450)}

SeqFreqs == {Hz(270)}

\* the lists given to Notes(): the Notes object, heap objects, ints, strs
\* and a float
MixArgs ==
    {<<NotesItem>>, <<NotesItem, ObjItem(1)>>,
     <<NotesItem, IntItem(64), StrItem(<<"c", "#", "5">>)>>,
     <<ObjItem(2), ObjItem(1)>>, <<IntItem(67), IntItem(60)>>,
     <<IntItem(128)>>, <<StrItem(<<"h">>)>>, <<ObjItem(1), OtherItem>>}

\* the operands of + and the object given to Notes() in place of a list
NoteLikes == {ObjItem(1), ObjItem(2), NotesItem}

\* the arguments of notes.append()
AppendArgs == {<<ObjItem(2)>>, <<IntItem(64), IntItem(67)>>}

\* durations, units (one unsupported) and bpm values given to Note and Track
Durations == {Frac(0, 1), Frac(1, 2), Frac(1, 1), Frac(2, 1), Frac(500, 1)}

Units == {"s", "ms", "ql", "min"}

Bpms == {None, Some(0), Some(-60), Some(60), Some(120)}

\* the members (MIDI numbers, sorted), waveforms (one unsupported), durations
\* and sampling rates of a rendering call
RenderMembers == {<<60>>, <<60, 64>>, <<60, 60>>, <<60, 64, 67>>}

RenderWaveforms == {"sin", "callable", "noise"}

RenderDurations == {Frac(0, 1), Frac(1, 2), Frac(2, 3), Frac(1, 1), Frac(3, 2), Frac(2, 1)}

SampleRates == {1, 3, 4}

Releases == {Frac(0, 1), Frac(1, 2)}

\* attack, hold and decay times of an envelope
EnvelopeTimes == {Frac(0, 1), Frac(1, 2), Frac(1, 1)}

\* the durations of the events of a track, its sampling rates and releases
TrackDurations ==
    {<<>>, <<Frac(1, DEFAULT_SR)>>, <<Frac(2, DEFAULT_SR), Frac(1, DEFAULT_SR)>>,
     <<Frac(2, DEFAULT_SR), Frac(3, DEFAULT_SR)>>,
     <<Frac(1, DEFAULT_SR), Frac(3, DEFAULT_SR)>>,
     <<Frac(0, 1), Frac(2, DEFAULT_SR)>>,
     <<Frac(2, DEFAULT_SR), Frac(2, DEFAULT_SR), Frac(1, DEFAULT_SR)>>}

TrackRates == {0, 3, DEFAULT_SR}

ReleaseSamples == {0, 1, 2}

\* the tracks of a stream (each the durations of its events) and the
\* waveform argument of its render
StreamTracks ==
    {<<>>, <<<<Frac(2, DEFAULT_SR)>>>>,
     <<<<Frac(2, DEFAULT_SR)>>, <<Frac(2, DEFAULT_SR), Frac(1, DEFAULT_SR)>>>>,
     <<<<Frac(2, DEFAULT_SR), Frac(1, DEFAULT_SR)>>, <<Frac(2, DEFAULT_SR)>>>>,
     <<<<Frac(1, DEFAULT_SR)>>, <<>>, <<Frac(3, DEFAULT_SR)>>>>}

StreamWaveformArgs ==
    {[list |-> FALSE, w |-> "sin"], [list |-> FALSE, w |-> "callable"],
     [list |-> TRUE, ws |-> <<"sin", "square">>]}

\* the identities of Envelope objects: 0 for the class attribute, and one
\* for the envelope a caller may pass with each object
EnvIds == {0} \cup ObjIds

\* the sr argument of a constructor
EnvRates == {8000, DEFAULT_SR, 44100, 48000}

\* the operands of a comparison
CompareNums == {0, 59, 60, 127}

Relations == {"==", "<", "<=", ">", ">="}

\* the stand_A4 keyword of a tuning call
StandArgs == {"omitted", "True", "False"}

NotesArgs == {<<1>>, <<2>>, <<1, 2>>, <<2, 1>>, <<1, 1>>}

TrackArgs == {<<1, 2>>, <<2, 2>>, <<0>>, <<0, 1>>, <<2, 0>>}

\* the objects the program has built before it builds a container
BuiltObjs == {NoteFromInt(q, Hz(DEFAULT_A4)).obj : q \in SeqNums} \cup {RestObj}

Init ==
    /\ mode \in {"names", "note", "chord", "seq", "coll", "render", "env"}
    /\ call = NoCall
    /\ note = NoObj
    /\ last = NoLast
    /\ chord = NoObj
    /\ heap \in IF mode \in {"seq", "coll"} THEN [ObjIds -> BuiltObjs]
                ELSE {[i \in ObjIds |-> NoObj]}
    /\ notesObj = NoObj
    /\ track = NoObj
    /\ envelopes = [e \in EnvIds |-> IF e = 0 THEN Envelope(Frac(1, 10), DEFAULT_SR) ELSE NoObj]

(***************************************************************************)
(* mode "names": the formatting functions, applied to bounded inputs.      *)
(***************************************************************************)
CallStringFormatting ==
    /\ mode = "names"
    /\ call = NoCall
    /\ \E l \in Letters \cup {"h"}, a \in Accidentals, o \in OctaveStrs :
         call' = [fn |-> "string_formatting", l |-> l, a |-> a, o |-> o,
                  result |-> [ok |-> TRUE,
                              name |-> string_formatting(<<l>> \o a \o o)]]
    /\ UNCHANGED <<envelopes, mode, note, last, chord, heap, notesObj, track>>

CallCheckNname ==
    /\ mode = "names"
    /\ call = NoCall
    /\ \E l \in Letters \cup {"h"}, a \in Accidentals :
         call' = [fn |-> "check_nname", l |-> l, a |-> a, o |-> <<>>,
                  result |-> check_nname(<<l>> \o a)]
    /\ UNCHANGED <<envelopes, mode, note, last, chord, heap, notesObj, track>>

CallNoteNameFormatting ==
    /\ mode = "names"
    /\ call = NoCall
    /\ \E fmt \in Formatters, octave \in OctaveArgs,
          l \in Letters \cup {"h"}, a \in Accidentals, o \in OctaveStrs :
         call' = [fn |-> "note_name_formatting", fmt |-> fmt,
                  l |-> l, a |-> a, o |-> o, octave |-> octave,
                  result |-> FormatNoteName(fmt, <<l>> \o a \o o, octave)]
    /\ UNCHANGED <<envelopes, mode, note, last, chord, heap, notesObj, track>>

ChordSuffixes == { <<>>, <<"m">>, <<"m", "7">>, <<"x">>, <<"z">> }

ChordTypeArgs == { NoType, <<>>, <<"m">>, <<"m", "7">>, <<"z">> }

CallChordNameFormatting ==
    /\ mode = "names"
    /\ call = NoCall
    /\ \E type \in ChordTypeArgs,
          l \in {"C", "b", "h"}, a \in Accidentals, o \in ChordSuffixes :
         call' = [fn |-> "chord_name_formatting", l |-> l, a |-> a, o |-> o,
                  type |-> type,
                  result |-> chord_name_formatting(<<l>> \o a \o o, type)]
    /\ UNCHANGED <<envelopes, mode, note, last, chord, heap, notesObj, track>>

\* a <rel> b for two objects, each a Note or a Rest
CallCompare ==
    /\ mode = "names"
    /\ call = NoCall
    /\ \E a \in {NoteFromInt(q, Hz(DEFAULT_A4)).obj : q \in CompareNums} \cup {RestObj},
          b \in {NoteFromInt(q, Hz(DEFAULT_A4)).obj : q \in CompareNums} \cup {RestObj},
          rel \in Relations :
         call' = [fn |-> "Note.compare", rel |-> rel, a |-> a, b |-> b,
                  result |-> NoteCompare(rel, a, b)]
    /\ UNCHANGED <<envelopes, mode, note, last, chord, heap, notesObj, track>>

\* m = Note(n); Note(m.name, m.octave)
CallNoteOfNameOctave ==
    /\ mode = "names"
    /\ call = NoCall
    /\ \E fmt \in Formatters, n \in 0..MIDI_MAX :
         LET m == NoteFromInt(n, Hz(DEFAULT_A4)).obj
         IN call' = [fn |-> "Note(m.name, m.octave)", fmt |-> fmt, n |-> n,
                     name |-> m.name, octave |-> m.octave,
                     result |-> NoteFromName(fmt, m.name, m.octave, Hz(DEFAULT_A4))]
    /\ UNCHANGED <<envelopes, mode, note, last, chord, heap, notesObj, track>>

\* m = Note(n); Note(str(m)), the octave argument at its default
CallNoteOfStr ==
    /\ mode = "names"
    /\ call = NoCall
    /\ \E fmt \in Formatters, n \in 0..MIDI_MAX :
         LET m == NoteFromInt(n, Hz(DEFAULT_A4)).obj
         IN call' = [fn |-> "Note(str(m))", fmt |-> fmt, n |-> n,
                     str |-> NoteStr(m),
                     result |-> NoteFromName(fmt, NoteStr(m), DEFAULT_OCTAVE,
                                             Hz(DEFAULT_A4))]
    /\ UNCHANGED <<envelopes, mode, note, last, chord, heap, notesObj, track>>

NextNames ==
    \/ CallStringFormatting
    \/ CallCheckNname
    \/ CallNoteNameFormatting
    \/ CallChordNameFormatting
    \/ CallCompare
    \/ CallNoteOfNameOctave
    \/ CallNoteOfStr

(***************************************************************************)
(* mode "note": one Note object, built and transposed.                     *)
(***************************************************************************)
\* x = Note(q), the first binding of x: a raise leaves x unbound
NewNoteInt ==
    /\ mode = "note"
    /\ note = NoObj /\ last = NoLast
    /\ \E q \in -1..(MIDI_MAX + 1) :
         LET r == NoteFromInt(q, Hz(DEFAULT_A4)) IN
         /\ note' = IF r.ok THEN r.obj ELSE note
         /\ last' = [op |-> "NoteInt", ok |-> r.ok, q |-> q]
    /\ UNCHANGED <<envelopes, mode, call, chord, heap, notesObj, track>>

NewNoteName ==
    /\ mode = "note"
    /\ note = NoObj /\ last = NoLast
    /\ \E fmt \in Formatters, octave \in OctaveArgs,
          l \in {"A", "B", "C", "G", "b"},
          a \in { <<>>, <<"#">>, <<"b">>, <<"-">> },
          o \in { <<>>, <<"5">>, <<"1", "0">> } :
         LET r == NoteFromName(fmt, <<l>> \o a \o o, octave, Hz(DEFAULT_A4)) IN
         /\ note' = IF r.ok THEN r.obj ELSE note
         /\ last' = [op |-> "NoteName", ok |-> r.ok, fmt |-> fmt,
                     l |-> l, a |-> a, o |-> o, octave |-> octave]
    /\ UNCHANGED <<envelopes, mode, call, chord, heap, notesObj, track>>

InWindow(num) == -MaxOut <= num /\ num <= MIDI_MAX + MaxOut

\* notes.py Note.transpose on a single note (self._notes = [self])
Transpose ==
    /\ mode = "note"
    /\ IsNote(note)
    /\ \E k \in TransposeSteps :
         /\ InWindow(note.num + k)
         /\ note' = TransposeOne(note, k)
         /\ last' = [op |-> "transpose", ok |-> TRUE, k |-> k, pre |-> note.num]
    /\ UNCHANGED <<envelopes, mode, call, chord, heap, notesObj, track>>

\* _base.py BaseNotes.transpose on a single note
BaseTranspose ==
    /\ mode = "note"
    /\ IsNote(note)
    /\ \E k \in TransposeSteps :
         /\ InWindow(note.num + k)
         /\ note' = BaseTransposeOne(note, k)
         /\ last' = [op |-> "base_transpose", ok |-> TRUE, k |-> k, pre |-> note.num]
    /\ UNCHANGED <<envelopes, mode, call, chord, heap, notesObj, track>>

\* note.octave = value
SetOctave ==
    /\ mode = "note"
    /\ IsNote(note)
    /\ \E value \in OctaveArgs :
         /\ note' = SetOctaveOne(note, value)
         /\ last' = [op |-> "octave", ok |-> TRUE, value |-> value,
                     pre |-> note.num]
    /\ UNCHANGED <<envelopes, mode, call, chord, heap, notesObj, track>>

NextNote ==
    \/ NewNoteInt
    \/ NewNoteName
    \/ Transpose
    \/ BaseTranspose
    \/ SetOctave

(***************************************************************************)
(* mode "chord": one Chord object, built, transposed and tuned.            *)
(***************************************************************************)
A4Args == {DEFAULT_A4, 450}

ChordSteps == {-12, -1, 2, 12}

NewChord ==
    /\ mode = "chord"
    /\ chord = NoObj /\ last = NoLast
    /\ \E type \in { NoType, <<>>, <<"m", "7">>, <<"x">>, <<"z">> },
          l \in {"C", "b"}, a \in { <<>>, <<"-">> },
          o \in { <<>>, <<"m">>, <<"z">> },
          octave \in {-1, 0, DEFAULT_OCTAVE}, a4 \in A4Args :
         LET r == NewChordObj(<<l>> \o a \o o, type, octave, Hz(a4)) IN
         /\ chord' = IF r.ok THEN r.obj ELSE chord
         /\ last' = [op |-> "Chord", ok |-> r.ok, n |-> 1, type |-> type,
                     o |-> o, octave |-> octave, a4 |-> a4]
    /\ UNCHANGED <<envelopes, mode, call, note, heap, notesObj, track>>

ChordTranspose ==
    /\ mode = "chord"
    /\ chord # NoObj /\ last.n < MaxOps
    /\ \E k \in ChordSteps :
         /\ chord' = ChordTransposeObj(chord, k)
         /\ last' = [op |-> "chord_transpose", ok |-> TRUE, n |-> last.n + 1,
                     k |-> k, pre |-> ChordRoot(chord).num,
                     preIdx |-> ChordRoot(chord).idx]
    /\ UNCHANGED <<envelopes, mode, call, note, heap, notesObj, track>>

ChordTuning ==
    /\ mode = "chord"
    /\ chord # NoObj /\ last.n < MaxOps
    /\ \E a4 \in A4Args :
         /\ chord' = ChordTuningObj(chord, Hz(a4))
         /\ last' = [op |-> "chord_tuning", ok |-> TRUE, n |-> last.n + 1,
                     a4 |-> a4]
    /\ UNCHANGED <<envelopes, mode, call, note, heap, notesObj, track>>

NextChord ==
    \/ NewChord
    \/ ChordTranspose
    \/ ChordTuning

(***************************************************************************)
(* Notes, Rests, a Notes object and a Track over a shared heap             *)
(* (mode "seq").                                                           *)
(***************************************************************************)
SeqLast(op, ok, arg, refs) ==
    [op |-> op, ok |-> ok, n |-> last.n + 1, arg |-> arg, refs |-> refs,
     pre |-> heap]

SeqStep == mode = "seq" /\ last.n < MaxSeqOps

\* a call that builds a collection (mode "coll")
CollStep == mode = "coll" /\ last.n < MaxCollOps

CollLast(op, ok) == [op |-> op, ok |-> ok, n |-> last.n + 1, pre |-> heap]

\* mn.Notes(notes, A4=a4)
NewNotes ==
    /\ (SeqStep \/ CollStep) /\ notesObj = NoObj /\ track = NoObj
    /\ \E refs \in NotesArgs, a4 \in SeqA4s :
         /\ heap' = NotesInit(heap, refs, a4).heap
         /\ notesObj' = IF NotesInit(heap, refs, a4).ok
                        THEN NotesInit(heap, refs, a4).obj ELSE NoObj
         /\ last' = SeqLast("Notes", NotesInit(heap, refs, a4).ok, a4, refs)
    /\ UNCHANGED <<envelopes, mode, call, note, chord, track>>

\* mn.Track(sequence, A4=a4)
NewTrack ==
    /\ SeqStep /\ track = NoObj
    /\ \E events \in TrackArgs, a4 \in SeqA4s :
         /\ HasNotesEvent(events) => notesObj # NoObj
         /\ heap' = TrackSetA4Fold([h |-> heap, ns |-> notesObj], events, a4).h
         /\ notesObj' = TrackSetA4Fold([h |-> heap, ns |-> notesObj], events, a4).ns
         /\ track' = [kind |-> "Track", sequence |-> events, A4 |-> a4]
         /\ last' = SeqLast("Track", TRUE, a4, TrackRefs(notesObj, events))
    /\ UNCHANGED <<envelopes, mode, call, note, chord>>

\* note.transpose(k) on the object i of the heap, Note.transpose of notes.py
NoteTranspose ==
    /\ SeqStep
    /\ \E i \in ObjIds, k \in SeqSteps :
         /\ heap' = EventTranspose([h |-> heap, ns |-> notesObj], i, k).h
         /\ last' = SeqLast("note_transpose", TRUE, k, <<i>>)
    /\ UNCHANGED <<envelopes, mode, call, note, chord, notesObj, track>>

\* note.A4 = value on the object i of the heap
NoteSetA4 ==
    /\ SeqStep
    /\ \E i \in ObjIds, value \in SeqA4s :
         /\ heap' = EventSetA4([h |-> heap, ns |-> notesObj], i, value).h
         /\ last' = SeqLast("note_A4", TRUE, value, <<i>>)
    /\ UNCHANGED <<envelopes, mode, call, note, chord, notesObj, track>>

\* note.tuning(freq[, stand_A4]) on a Note of the heap (Rest.tuning is `pass`)
NoteTuning ==
    /\ SeqStep
    /\ \E i \in ObjIds, freq \in SeqFreqs, given \in StandArgs :
         /\ heap' = IF IsRest(heap[i]) THEN heap
                    ELSE [heap EXCEPT ![i] =
                             TuningOne(heap[i], freq,
                                       StandOf(given, NOTE_TUNING_STAND_A4))]
         /\ last' = [given |-> given] @@ SeqLast("note_tuning", TRUE, freq, <<i>>)
    /\ UNCHANGED <<envelopes, mode, call, note, chord, notesObj, track>>

\* BaseNotes.tuning(freq[, stand_A4]) on a Note of the heap
BaseNoteTuning ==
    /\ SeqStep
    /\ \E i \in ObjIds, freq \in SeqFreqs, given \in StandArgs :
         /\ IsNote(heap[i])
         /\ heap' = [heap EXCEPT ![i] =
                         BaseTuningOne(heap[i], freq,
                                       StandOf(given, BASE_TUNING_STAND_A4))]
         /\ last' = [given |-> given] @@
                    SeqLast("base_note_tuning", TRUE, freq, <<i>>)
    /\ UNCHANGED <<envelopes, mode, call, note, chord, notesObj, track>>

\* notes.transpose(k), Notes.transpose of notes.py
NotesTranspose ==
    /\ SeqStep /\ notesObj # NoObj
    /\ \E k \in SeqSteps :
         /\ heap' = EventTranspose([h |-> heap, ns |-> notesObj], 0, k).h
         /\ notesObj' = EventTranspose([h |-> heap, ns |-> notesObj], 0, k).ns
         /\ last' = SeqLast("notes_transpose", TRUE, k, notesObj.refs)
    /\ UNCHANGED <<envelopes, mode, call, note, chord, track>>

\* BaseNotes.transpose(k) on the notes of the Notes object
BaseNotesTranspose ==
    /\ SeqStep /\ notesObj # NoObj
    /\ \E k \in SeqSteps :
         /\ heap' = BaseTransposeRefs(heap, notesObj.refs, k)
         /\ last' = SeqLast("base_notes_transpose", TRUE, k, notesObj.refs)
    /\ UNCHANGED <<envelopes, mode, call, note, chord, notesObj, track>>

\* notes.tuning(A4_freq), Notes.tuning of notes.py
NotesTuning ==
    /\ SeqStep /\ notesObj # NoObj
    /\ \E value \in SeqA4s :
         /\ heap' = EventSetA4([h |-> heap, ns |-> notesObj], 0, value).h
         /\ notesObj' = EventSetA4([h |-> heap, ns |-> notesObj], 0, value).ns
         /\ last' = SeqLast("notes_tuning", TRUE, value, notesObj.refs)
    /\ UNCHANGED <<envelopes, mode, call, note, chord, track>>

\* BaseNotes.tuning(freq, stand_A4) on the notes of the Notes object: with
\* stand_A4=False and more than one note it raises in the first iteration
BaseNotesTuning ==
    /\ SeqStep /\ notesObj # NoObj
    /\ \E freq \in SeqFreqs, stand_A4 \in BOOLEAN :
         /\ heap' = IF ~stand_A4 /\ Len(notesObj.refs) > 1 THEN heap
                    ELSE BaseTuningRefs(heap, notesObj.refs, freq, stand_A4)
         /\ last' = [stand_A4 |-> stand_A4] @@
                    SeqLast("base_notes_tuning",
                            stand_A4 \/ Len(notesObj.refs) <= 1, freq,
                            notesObj.refs)
    /\ UNCHANGED <<envelopes, mode, call, note, chord, notesObj, track>>

\* notes.freq = value: the freq setter Notes inherits from Note
NotesSetFreq ==
    /\ SeqStep /\ notesObj # NoObj
    /\ \E value \in SeqFreqs :
         /\ heap' = SetFreqRefs(heap, notesObj.refs, value)
         /\ last' = SeqLast("notes_freq", TRUE, value, notesObj.refs)
    /\ UNCHANGED <<envelopes, mode, call, note, chord, notesObj, track>>

\* an item list that names the Notes object needs it built
HasNotesItem(items) == \E i \in 1..Len(items) : items[i] = NotesItem

\* mn.Notes(items, A4=a4) over a list of any items; the new object is kept
\* in last.result
NewNotesMix ==
    /\ CollStep
    /\ \E items \in MixArgs, a4 \in SeqA4s :
         LET r == NotesOfItems(heap, notesObj, items, a4) IN
         /\ HasNotesItem(items) => notesObj # NoObj
         /\ heap' = r.heap
         /\ last' = [items |-> items, self |-> notesObj,
                     result |-> IF r.ok THEN r.obj ELSE NoObj] @@
                    CollLast("NotesMix", r.ok)
    /\ UNCHANGED <<envelopes, mode, call, note, chord, notesObj, track>>

\* mn.Notes(x) with a Note or a Notes x in place of the list
NewNotesBare ==
    /\ CollStep
    /\ \E item \in NoteLikes :
         /\ item = NotesItem => notesObj # NoObj
         /\ heap' = NotesOfBare(heap, item).heap
         /\ last' = [items |-> <<item>>, self |-> notesObj, result |-> NoObj] @@
                    CollLast("NotesBare", NotesOfBare(heap, item).ok)
    /\ UNCHANGED <<envelopes, mode, call, note, chord, notesObj, track>>

\* a + b on Notes and Note operands: Notes(self, other), self in place of
\* the list
NotesAdd ==
    /\ CollStep
    /\ \E a \in NoteLikes, b \in NoteLikes :
         /\ HasNotesItem(<<a, b>>) => notesObj # NoObj
         /\ IsNote(heap[1]) /\ IsNote(heap[2])
         /\ heap' = NotesOfBare(heap, a).heap
         /\ last' = [items |-> <<a, b>>, self |-> notesObj, result |-> NoObj] @@
                    CollLast("add", NotesOfBare(heap, a).ok)
    /\ UNCHANGED <<envelopes, mode, call, note, chord, notesObj, track>>

\* notes.append(*items): a new Notes over [self, *items] is bound to the
\* local name self; the object the caller holds is not touched
NotesAppend ==
    /\ CollStep /\ notesObj # NoObj
    /\ \E items \in AppendArgs :
         LET r == NotesOfItems(heap, notesObj, <<NotesItem>> \o items, notesObj.A4)
         IN
         /\ heap' = r.heap
         /\ last' = [items |-> items, self |-> notesObj, result |-> NoObj] @@
                    CollLast("append", r.ok)
    /\ UNCHANGED <<envelopes, mode, call, note, chord, notesObj, track>>

NextColl ==
    \/ NewNotes
    \/ NewNotesMix
    \/ NewNotesBare
    \/ NotesAdd
    \/ NotesAppend

\* track.transpose(k)
TrackTranspose ==
    /\ SeqStep /\ track # NoObj
    /\ \E k \in SeqSteps :
         /\ heap' = TrackTransposeFold([h |-> heap, ns |-> notesObj],
                                       track.sequence, k).h
         /\ notesObj' = TrackTransposeFold([h |-> heap, ns |-> notesObj],
                                           track.sequence, k).ns
         /\ last' = SeqLast("track_transpose", TRUE, k,
                            TrackRefs(notesObj, track.sequence))
    /\ UNCHANGED <<envelopes, mode, call, note, chord, track>>

\* track.tuning(A4_freq)
TrackTuning ==
    /\ SeqStep /\ track # NoObj
    /\ \E value \in SeqA4s :
         /\ heap' = TrackSetA4Fold([h |-> heap, ns |-> notesObj],
                                   track.sequence, value).h
         /\ notesObj' = TrackSetA4Fold([h |-> heap, ns |-> notesObj],
                                       track.sequence, value).ns
         /\ track' = [track EXCEPT !.A4 = value]
         /\ last' = SeqLast("track_tuning", TRUE, value,
                            TrackRefs(notesObj, track.sequence))
    /\ UNCHANGED <<envelopes, mode, call, note, chord>>

NextSeq ==
    \/ NewNotes
    \/ NewTrack
    \/ NoteTranspose
    \/ NoteSetA4
    \/ NoteTuning
    \/ BaseNoteTuning
    \/ NotesTranspose
    \/ BaseNotesTranspose
    \/ NotesTuning
    \/ BaseNotesTuning
    \/ NotesSetFreq
    \/ TrackTranspose
    \/ TrackTuning

(***************************************************************************)
(* Durations, sample counts and rendering (mode "render").                 *)
(***************************************************************************)
RenderStep == mode = "render" /\ call = NoCall

\* Note("C4", duration=d, unit=u, bpm=b).render(): seconds from the attributes
CallNoteRenderAttrs ==
    /\ RenderStep
    /\ \E d \in Durations, u \in Units, b \in Bpms :
         call' = [fn |-> "Note.render", by |-> "attributes",
                  duration |-> d, unit |-> u, bpm |-> b,
                  result |-> NoteRenderSec(NoteTiming(d, u, b), None, None, None)]
    /\ UNCHANGED <<envelopes, mode, note, last, chord, heap, notesObj, track>>

\* Note("C4").render(duration=d, unit=u, bpm=b): seconds from the arguments
CallNoteRenderArgs ==
    /\ RenderStep
    /\ \E d \in Durations, u \in Units, b \in Bpms :
         call' = [fn |-> "Note.render", by |-> "arguments",
                  duration |-> d, unit |-> u, bpm |-> b,
                  result |-> NoteRenderSec(DefaultNoteTiming, Some(d), Some(u), b)]
    /\ UNCHANGED <<envelopes, mode, note, last, chord, heap, notesObj, track>>

\* Track(sequence, unit=u, bpm=b)._to_sec(d)
CallTrackToSec ==
    /\ RenderStep
    /\ \E d \in Durations, u \in Units, b \in Bpms :
         /\ TrackInitOk(u, b)
         /\ call' = [fn |-> "Track._to_sec", by |-> "attributes",
                     duration |-> d, unit |-> u, bpm |-> b,
                     result |-> TrackToSec([unit |-> u, bpm |-> b], d)]
    /\ UNCHANGED <<envelopes, mode, note, last, chord, heap, notesObj, track>>

\* Note("C4", duration=d, unit=u, bpm=b)
CallNoteInit ==
    /\ RenderStep
    /\ \E d \in Durations, u \in Units, b \in Bpms :
         call' = [fn |-> "Note.__init__", by |-> "arguments",
                  duration |-> d, unit |-> u, bpm |-> b,
                  result |-> NoteInitTiming(d, u, b)]
    /\ UNCHANGED <<envelopes, mode, note, last, chord, heap, notesObj, track>>

\* Track(sequence, unit=u, bpm=b)
CallTrackInit ==
    /\ RenderStep
    /\ \E u \in Units, b \in Bpms :
         call' = [fn |-> "Track.__init__", by |-> "arguments",
                  duration |-> Frac(0, 1), unit |-> u, bpm |-> b,
                  result |-> TrackInitTiming(u, b)]
    /\ UNCHANGED <<envelopes, mode, note, last, chord, heap, notesObj, track>>

\* Notes(nums).render(waveform, d, u, b, sr), and each member's render alone
\* with the same arguments (a single number is Note.render)
CallNotesRender ==
    /\ RenderStep
    /\ \E nums \in RenderMembers, w \in RenderWaveforms, d \in RenderDurations,
          u \in Units, b \in Bpms, sr \in SampleRates :
         call' = [fn |-> "Notes.render", nums |-> nums, waveform |-> w,
                  duration |-> d, unit |-> u, bpm |-> b, sr |-> sr,
                  result |-> NoteRender([i \in 1..Len(nums) |->
                                            FreqOf(Hz(DEFAULT_A4), nums[i])],
                                        DefaultNoteTiming, w, Some(d), Some(u), b, sr),
                  alone |-> [i \in 1..Len(nums) |->
                               NoteRender(<<FreqOf(Hz(DEFAULT_A4), nums[i])>>,
                                          DefaultNoteTiming, w, Some(d), Some(u), b, sr)]]
    /\ UNCHANGED <<envelopes, mode, note, last, chord, heap, notesObj, track>>

\* Envelope(attack=a, decay=d, release=r, hold=h, sr=sr).get_window(sec)
CallGetWindow ==
    /\ RenderStep
    /\ \E sec \in RenderDurations, sr \in SampleRates, r \in Releases,
          a \in EnvelopeTimes, h \in EnvelopeTimes, d \in EnvelopeTimes :
         call' = [fn |-> "Envelope.get_window", sec |-> sec, sr |-> sr,
                  release |-> r, attack |-> a, hold |-> h, decay |-> d,
                  result |-> get_window([attack |-> a, hold |-> h, decay |-> d,
                                         release |-> r, sr |-> sr], sec)]
    /\ UNCHANGED <<envelopes, mode, note, last, chord, heap, notesObj, track>>

\* Track(sequence, unit=u, bpm=b).render('sin', sr, release), the events
\* being single notes with the durations ds
CallTrackRender ==
    /\ RenderStep
    /\ \E ds \in TrackDurations, u \in Units, b \in Bpms, sr \in TrackRates,
          release \in ReleaseSamples :
         /\ TrackInitOk(u, b)
         /\ LET events == [k \in 1..Len(ds) |->
                             EventRender([unit |-> u, bpm |-> b], "sin", ds[k], sr)]
            IN call' = [fn |-> "Track.render", durations |-> ds, unit |-> u,
                        bpm |-> b, sr |-> sr, release |-> release,
                        events |-> events,
                        result |-> GenY(events, 1, release, <<>>)]
    /\ UNCHANGED <<envelopes, mode, note, last, chord, heap, notesObj, track>>

\* Stream(tracks).render(waveform, sr, release), the tracks in seconds
CallStreamRender ==
    /\ RenderStep
    /\ \E tracks \in StreamTracks, waveform \in StreamWaveformArgs,
          sr \in TrackRates, release \in ReleaseSamples :
         LET ws == StreamWaveforms(waveform, Len(tracks))
             rendered == [k \in 1..Len(tracks) |->
                            GenY([e \in 1..Len(tracks[k]) |->
                                    EventRender([unit |-> "s", bpm |-> None],
                                                ws.ws[k], tracks[k][e], sr)],
                                 1, release, <<>>)]
         IN call' = [fn |-> "Stream.render", tracks |-> tracks,
                     waveform |-> waveform, sr |-> sr, release |-> release,
                     rendered |-> IF ws.ok THEN rendered ELSE <<>>,
                     result |-> IF ws.ok THEN StreamGenY(rendered, 1, <<>>) ELSE ws]
    /\ UNCHANGED <<envelopes, mode, note, last, chord, heap, notesObj, track>>

\* Rest().render(waveform, d, u, b, sr), each of d, u, b given or left to
\* its default None, and the same call on the note A4
CallRestRender ==
    /\ RenderStep
    /\ \E w \in RenderWaveforms, d \in {None} \cup {Some(x) : x \in RenderDurations},
          u \in {None, Some("s"), Some("ql")}, b \in Bpms, sr \in SampleRates :
         call' = [fn |-> "Rest.render", waveform |-> w, duration |-> d,
                  unit |-> u, bpm |-> b, sr |-> sr,
                  result |-> RestRender(w, d, u, b, sr),
                  pitched |-> NoteRender(<<FreqOf(Hz(DEFAULT_A4), NUM_A4)>>,
                                         DefaultNoteTiming, w, d, u, b, sr)]
    /\ UNCHANGED <<envelopes, mode, note, last, chord, heap, notesObj, track>>

NextRender ==
    \/ CallNoteInit
    \/ CallTrackInit
    \/ CallNoteRenderAttrs
    \/ CallNoteRenderArgs
    \/ CallTrackToSec
    \/ CallNotesRender
    \/ CallGetWindow
    \/ CallTrackRender
    \/ CallStreamRender
    \/ CallRestRender


(***************************************************************************)
(* mode "env": objects built one after the other, and their envelopes.     *)
(***************************************************************************)
\* an object built with sr=sr and no envelope argument
CallInitAttrs ==
    /\ mode = "env"
    /\ \E i \in ObjIds, sr \in EnvRates :
         /\ heap[i] = NoObj
         /\ envelopes' = InitAttrsEnvelopes(envelopes, i, FALSE, sr)
         /\ heap' = [heap EXCEPT ![i] =
                        InitAttrsObj(envelopes, i, FALSE, sr, Hz(DEFAULT_A4))]
         /\ last' = [op |-> "init_attrs", ok |-> TRUE, n |-> 0, id |-> i,
                     explicit |-> FALSE, sr |-> sr]
    /\ UNCHANGED <<mode, call, note, chord, notesObj, track>>

\* an object built with sr=sr and envelope=Envelope(release=r)
CallInitAttrsEnvelope ==
    /\ mode = "env"
    /\ \E i \in ObjIds, sr \in EnvRates, r \in Releases :
         /\ heap[i] = NoObj
         /\ LET envs == [envelopes EXCEPT ![i] = Envelope(r, DEFAULT_SR)]
            IN /\ envelopes' = InitAttrsEnvelopes(envs, i, TRUE, sr)
               /\ heap' = [heap EXCEPT ![i] =
                              InitAttrsObj(envs, i, TRUE, sr, Hz(DEFAULT_A4))]
         /\ last' = [op |-> "init_attrs", ok |-> TRUE, n |-> 0, id |-> i,
                     explicit |-> TRUE, sr |-> sr]
    /\ UNCHANGED <<mode, call, note, chord, notesObj, track>>

NextEnv ==
    \/ CallInitAttrs
    \/ CallInitAttrsEnvelope

Next ==
    \/ NextNames
    \/ NextNote
    \/ NextChord
    \/ NextSeq
    \/ NextColl
    \/ NextRender
    \/ NextEnv

Spec == Init /\ [][Next]_vars

InitNames == Init /\ mode = "names"

SpecNames == InitNames /\ [][NextNames]_vars

InitNote == Init /\ mode = "note"

SpecNote == InitNote /\ [][NextNote]_vars

InitChord == Init /\ mode = "chord"

SpecChord == InitChord /\ [][NextChord]_vars

InitSeq == Init /\ mode = "seq"

SpecSeq == InitSeq /\ [][NextSeq]_vars

InitColl == Init /\ mode = "coll"

SpecColl == InitColl /\ [][NextColl]_vars

InitRender == Init /\ mode = "render"

SpecRender == InitRender /\ [][NextRender]_vars

InitEnv == Init /\ mode = "env"

SpecEnv == InitEnv /\ [][NextEnv]_vars

(***************************************************************************)
(* The claims.                                                             *)
(***************************************************************************)
InMidi(n) == 0 <= n /\ n <= MIDI_MAX

\* C1: a Note built from n in 0..127 has num = n, and a transposition by k
\* with 0 <= n + k <= 127 leaves it with num = n + k (n = 0 included).
C1_FromMidiAndTranspose ==
    /\ (last.op = "NoteInt" /\ InMidi(last.q)) =>
           (last.ok /\ IsNote(note) /\ note.num = last.q)
    /\ (last.op \in {"transpose", "base_transpose"}
        /\ InMidi(last.pre) /\ InMidi(last.pre + last.k)) =>
           note.num = last.pre + last.k

\* C2: a note with a MIDI number has 0 <= num <= 127, and construction from
\* an integer outside 0..127 fails.
C2_MidiRange ==
    /\ IsNote(note) => InMidi(note.num)
    /\ (last.op = "NoteInt" /\ ~InMidi(last.q)) => ~last.ok

\* C3: every note has 0 <= idx <= 11 and num = 12 + 12*octave + idx.
C3_NumOctaveIdx ==
    IsNote(note) =>
        /\ 0 <= note.idx /\ note.idx <= 11
        /\ note.num = 12 + 12 * note.octave + note.idx

\* C3 witness: a note built from a flat name, moved below C0 by a transposition
C3_Witness ==
    /\ IsNote(note)
    /\ last.op \in {"transpose", "octave"}
    /\ note.num < NUM_C0
    /\ note.octave < 0
    /\ note.idx = 11

CanonLetter(l) ==
    CASE l \in {"A", "a"} -> "A" [] l \in {"B", "b"} -> "B"
      [] l \in {"C", "c"} -> "C" [] l \in {"D", "d"} -> "D"
      [] l \in {"E", "e"} -> "E" [] l \in {"F", "f"} -> "F"
      [] l \in {"G", "g"} -> "G" [] OTHER -> "?"

CanonAccidental(a) ==
    IF a \in Sharps THEN <<"#">> ELSE IF a \in Flats THEN <<"b">> ELSE <<>>

\* C5: every letter A-G in either case with every spelling of the accidental
\* is accepted and gives the upper-case letter followed by '#' or 'b'.
C5_AccidentalSpellings ==
    (/\ call.fn \in {"check_nname", "note_name_formatting"}
     /\ call.l \in Letters
     /\ (call.fn = "note_name_formatting" => (call.o # <<>> \/ call.octave # 0)))
    => (/\ call.result.ok
        /\ call.result.name = <<CanonLetter(call.l)>> \o CanonAccidental(call.a))

\* C6: octave digits in the note-name string decide the octave and the
\* octave argument is ignored; the argument is used only without digits.
C6_OctaveFromString ==
    last.op = "NoteName" =>
        /\ last.o # <<>> =>
               (last.ok /\ IsNote(note) /\ note.octave = IntOfDigits(last.o))
        /\ (last.o = <<>> /\ last.ok) => note.octave = last.octave

ResolvedType(type, suffix) == IF type # NoType THEN type ELSE suffix

C7_ChordComponents ==
    (last.op = "Chord" /\ last.ok) =>
        \A i \in 1..Len(chord.interval) :
            /\ chord.notes[i].num = ChordRoot(chord).num + chord.interval[i]
            /\ chord.notes[i].A4 = ChordRoot(chord).A4

PitchClasses(ns) == { ns[i].idx : i \in 1..Len(ns) }

\* C8: after Chord.transpose(n) the root has the old root's pitch class and
\* number moved by n, the notes have exactly the pitch classes
\* (root + offset) mod 12, and name and idxs agree with the root.
C8_ChordTranspose ==
    last.op = "chord_transpose" =>
        LET root == ChordRoot(chord) IN
        /\ root.idx = (last.preIdx + last.k) % 12
        /\ root.num = last.pre + last.k
        /\ PitchClasses(chord.notes) =
               { (root.idx + chord.interval[i]) % 12 : i \in 1..Len(chord.interval) }
        /\ chord.name = root.name \o chord.type
        /\ chord.idxs = ChordIdxs(root, chord.interval)

\* C4: after any construction, transposition, A4 assignment and tuning (in
\* either mode) of a note or of a container that holds it, every note with a
\* MIDI number has freq = A4 * 2^((num - 69)/12) for its own A4 and num.
C4_FreqDerived ==
    \A i \in ObjIds :
        IsNote(heap[i]) => heap[i].freq = FreqOf(heap[i].A4, heap[i].num)

\* a note tuned by its frequency (A4 solved back from 270) and transposed after
C4_Witness ==
    /\ last.op \in {"note_transpose", "notes_transpose", "track_transpose"}
    /\ \E i \in ObjIds :
         /\ IsNote(heap[i]) /\ Len(SelectSeq(last.refs, LAMBDA r : r = i)) > 0
         /\ heap[i].A4.b = 270 /\ heap[i].A4.e # NUM_A4 - heap[i].num
         /\ heap[i].num # last.pre[i].num

BulkTransposes == {"notes_transpose", "base_notes_transpose", "track_transpose"}

BulkTunings == {"notes_tuning", "base_notes_tuning", "track_tuning"}

Occurrences(refs, i) == Len(SelectSeq(refs, LAMBDA r : r = i))

\* the bulk operation has been applied to the object i
BulkApplied(i) ==
    IF last.op \in BulkTransposes THEN heap[i] # last.pre[i]
    ELSE heap[i].A4 = last.arg \/ heap[i].freq = last.arg

MovedOrSkipped(i) ==
    IF IsRest(last.pre[i]) \/ Occurrences(last.refs, i) = 0
    THEN heap[i] = last.pre[i]
    ELSE IF last.op = "base_notes_transpose"
    THEN Occurrences(last.refs, i) = 1 =>
             IF last.pre[i].num = 0 THEN heap[i] = last.pre[i]
             ELSE heap[i].num = last.pre[i].num + last.arg
    ELSE heap[i].num = last.pre[i].num + Occurrences(last.refs, i) * last.arg

\* what a bulk tuning to last.arg has done to the object i
TunedOrLeft(i) ==
    IF ~last.ok \/ Occurrences(last.refs, i) = 0 THEN heap[i] = last.pre[i]
    ELSE heap[i].A4 = last.arg \/ heap[i].freq = last.arg

SeveralNotes(refs) == \E i, j \in 1..Len(refs) : refs[i] # refs[j]

\* C11: tuning a container of more than one note to an absolute frequency
\* fails and leaves the freq and A4 of every member as they were; no call
\* tunes the members of such a container to one absolute frequency.
C11_AbsoluteOnlySingle ==
    /\ (last.op = "base_notes_tuning" /\ SeveralNotes(last.refs)) =>
           (~last.stand_A4 => (~last.ok /\ heap = last.pre))
    /\ (last.op = "notes_freq" /\ SeveralNotes(last.refs)) =>
           (~last.ok /\ heap = last.pre)

\* C12: on a single note, tuning(f) with the frequency alone sets the note's
\* freq to f and A4 to f / 2^((num - 69)/12); A4 is set to f only when
\* stand_A4=True is passed.
C12_TuningDefaultMode ==
    (last.op \in {"note_tuning", "base_note_tuning"} /\ IsNote(heap[last.refs[1]])) =>
        LET n == heap[last.refs[1]] IN
        IF last.given = "True"
        THEN n.A4 = last.arg /\ n.freq = FreqOf(last.arg, n.num)
        ELSE n.freq = last.arg /\ n.A4 = BackSolve(last.arg, n.num)

ItemTypes == {"obj", "notes", "int", "str"}

ItemSize(self, item) == IF item = NotesItem THEN Len(self.refs) ELSE 1

\* C14: for Note or Notes operands a and b, a + b is a Notes whose members
\* are the members of a together with the members of b.
C14_AddCombines ==
    last.op = "add" =>
        /\ last.ok
        /\ last.result # NoObj
        /\ Len(last.result.members) =
               ItemSize(last.self, last.items[1]) + ItemSize(last.self, last.items[2])

\* the appended item is a note: an int or a Note of the heap
IsNoteItem(item) ==
    \/ item.t = "int" /\ InMidi(item.v)
    \/ item.t = "obj" /\ IsNote(heap[item.id])

\* C15: after notes.append(x1, ..., xk) the same Notes object holds its
\* previous members and the k appended notes.
C15_AppendGrows ==
    (last.op = "append" /\ \A i \in 1..Len(last.items) : IsNoteItem(last.items[i])) =>
        /\ last.ok
        /\ Len(notesObj.refs) = Len(last.self.refs) + Len(last.items)

\* value for seconds, value/1000 for milliseconds, value*60/bpm for quarter
\* lengths
ExpectedSec(duration, unit, bpm) ==
    IF unit = "s" THEN duration
    ELSE IF unit = "ms" THEN FracDiv(duration, 1000)
    ELSE FracDiv(FracMul(duration, 60), bpm.v)

\* C16: a duration becomes the same number of seconds in Note.render and in
\* Track._to_sec: value for 's', value/1000 for 'ms', value*60/bpm for 'ql'.
C16_DurationToSeconds ==
    (/\ call.fn \in {"Note.render", "Track._to_sec"}
     /\ call.unit \in SUPPORTED_UNITS
     /\ call.unit = "ql" => (call.bpm.some /\ call.bpm.v > 0))
    => (call.result.ok /\ call.result.sec = ExpectedSec(call.duration, call.unit, call.bpm))

\* C17: with unit 'ql' a missing or non-positive bpm is rejected when the
\* Note or the Track is built, and rendering never divides by a missing or
\* zero bpm.
C17_BpmCheckedAtInit ==
    /\ (call.fn \in {"Note.__init__", "Track.__init__"} /\ call.unit = "ql") =>
           (call.result.ok <=> (call.bpm.some /\ call.bpm.v > 0))
    /\ (call.fn = "Note.render" /\ ~call.result.ok) =>
           call.result.err \notin {"TypeError: / None", "ZeroDivisionError"}

\* the sum of the buffers of the members rendered alone: sample j is the sum
\* of their samples j, kept as the list of its terms in the order of the members
SumOfAlone(alone, j) == [i \in 1..Len(alone) |-> alone[i].y[j][1]]

\* C18: the buffer Notes.render returns has the length of, and is sample by
\* sample the sum of, the buffers its members return when each is rendered
\* alone with the same waveform, duration, unit, bpm and sampling rate; where
\* the collection's render raises, so does each member's.
C18_RenderIsSumOfMembers ==
    call.fn = "Notes.render" =>
        IF call.result.ok
        THEN \A i \in 1..Len(call.alone) :
               /\ call.alone[i].ok
               /\ Len(call.alone[i].y) = Len(call.result.y)
               /\ \A j \in 1..Len(call.result.y) :
                    /\ Len(call.alone[i].y[j]) = 1
                    /\ call.result.y[j] = SumOfAlone(call.alone, j)
        ELSE \A i \in 1..Len(call.alone) : call.alone[i] = call.result

C18_Witness ==
    /\ call.fn = "Notes.render"
    /\ call.result.ok
    /\ Len(call.nums) = 3
    /\ Len(call.result.y) >= 2
    /\ call.unit = "ql"

\* the calls that return a buffer for a number of seconds, the seconds and
\* the number of samples of the tone
IsCountCall ==
    \/ call.fn = "Envelope.get_window"
    \/ call.fn = "Notes.render" /\ call.unit = "s" /\ call.result.ok

CountProduct ==
    IF call.fn = "Envelope.get_window"
    THEN [n |-> call.sec.n * call.sr, d |-> call.sec.d]
    ELSE [n |-> call.duration.n * call.sr, d |-> call.duration.d]

CountSamples ==
    IF call.fn = "Envelope.get_window" THEN call.result.n ELSE Len(call.result.y)

\* round(x) of a fraction x >= 0, a half going to the even neighbour
RoundOf(q) ==
    IF 2 * (q.n % q.d) > q.d THEN (q.n \div q.d) + 1
    ELSE IF 2 * (q.n % q.d) < q.d THEN q.n \div q.d
    ELSE (q.n \div q.d) + ((q.n \div q.d) % 2)

\* C19 as stated: the number of samples of s seconds at the sampling rate sr
\* is round(sr * s).
C19_RoundedCount == IsCountCall => CountSamples = RoundOf(CountProduct)

\* C19 as amended: the number of samples is sr * s truncated, the integer n
\* with n <= sr * s < n + 1.
C19_TruncatedCount ==
    IsCountCall =>
        /\ CountSamples * CountProduct.d <= CountProduct.n
        /\ CountProduct.n < (CountSamples + 1) * CountProduct.d

\* a product with a fractional part of a half or more
C19_Witness ==
    /\ IsCountCall
    /\ call.fn = "Notes.render"
    /\ CountSamples >= 1
    /\ 2 * (CountProduct.n % CountProduct.d) >= CountProduct.d

\* the length the splice of the first k events is said to have: the sum of
\* their lengths less the release, clamped to the event, at each joint
RECURSIVE SpliceLength(_, _, _)
SpliceLength(events, release, k) ==
    IF k = 0 THEN 0
    ELSE SpliceLength(events, release, k - 1) + Len(events[k].y)
         - (IF k >= 2 THEN Min(release, Len(events[k].y)) ELSE 0)

\* C20: a track render of n >= 1 events returns a buffer whose length is the
\* sum of the lengths of the events' buffers minus the release (clamped to
\* the event) at each of the n - 1 joints, the events overlapping there.
C20_SpliceLength ==
    call.fn = "Track.render" /\ Len(call.durations) >= 1 =>
        /\ call.result.ok
        /\ Len(call.result.y) =
             SpliceLength(call.events, call.release, Len(call.events))

\* the tracks of the rendered stream whose buffer has a sample i
TracksAt(i) == {k \in 1..Len(call.rendered) : Len(call.rendered[k].y) >= i}

\* the mixed buffer has the length of the longest track buffer, and its
\* sample i is the sum of sample i of exactly the tracks that have one
MixedAsSum ==
    /\ \A k \in 1..Len(call.rendered) : Len(call.rendered[k].y) <= Len(call.result.y)
    /\ \A i \in 1..Len(call.result.y) :
         /\ TracksAt(i) # {}
         /\ Len(call.result.y[i]) = Cardinality(TracksAt(i))
         /\ \A k \in TracksAt(i) :
              \E p \in 1..Len(call.result.y[i]) :
                call.result.y[i][p] = [track |-> k, sample |-> call.rendered[k].y[i]]

\* C21: rendering a Stream whose waveform argument fits its tracks returns a
\* buffer as long as the longest track buffer, sample i being the sum of
\* sample i over exactly the tracks longer than i, whatever their order.
C21_StreamMix ==
    (call.fn = "Stream.render"
       /\ (call.waveform.list => Len(call.waveform.ws) = Len(call.tracks))) =>
        call.result.ok /\ MixedAsSum

\* C22: wherever a pitched note renders a buffer, a Rest given the same
\* waveform, duration, unit, bpm and sampling rate (explicitly or by its
\* defaults) renders a buffer of the same length, all zeros.
C22_RestRendersZeros ==
    (call.fn = "Rest.render" /\ call.pitched.ok) =>
        /\ call.result.ok
        /\ Len(call.result.y) = Len(call.pitched.y)
        /\ \A j \in 1..Len(call.result.y) : call.result.y[j] = <<>>

\* C24: in a track render that returns, the tail of every event is faded
\* over min(the event's own length, the release passed to render) samples,
\* whatever the lengths of the events before it.
C24_FadePerEvent ==
    (call.fn = "Track.render" /\ call.result.ok) =>
        \A k \in 1..Len(call.events) :
          \A j \in 1..Len(call.events[k].y) :
            call.result.y[SpliceLength(call.events, 0, k - 1) + j]
              = FadeOut(call.events[k].y,
                        Min(Len(call.events[k].y), call.release))[j]

\* C25: the attack, hold and decay lengths of a window are non-negative and
\* add up to at most n = int(sec * sr), and the window returned has
\* n + int(sr * release) samples.
C25_EnvelopeSegments ==
    call.fn = "Envelope.get_window" =>
        /\ call.result.at >= 0 /\ call.result.ht >= 0 /\ call.result.dt >= 0
        /\ call.result.at + call.result.ht + call.result.dt <= call.result.n
        /\ call.result.n * call.sec.d <= call.sec.n * call.sr
        /\ call.sec.n * call.sr < (call.result.n + 1) * call.sec.d
        /\ Len(call.result.y) * call.release.d
             <= call.result.n * call.release.d + call.release.n * call.sr
        /\ call.result.n * call.release.d + call.release.n * call.sr
             < (Len(call.result.y) + 1) * call.release.d

\* attack, hold and decay together ask for more than the n samples
C25_Witness ==
    /\ call.fn = "Envelope.get_window"
    /\ call.result.n >= 2
    /\ call.result.dt >= 1
    /\ call.result.ht >= 1
    /\ (call.attack.n * call.decay.d * call.hold.d
        + call.hold.n * call.attack.d * call.decay.d
        + call.decay.n * call.attack.d * call.hold.d) * call.sr
         > call.result.n * call.attack.d * call.decay.d * call.hold.d
    /\ Len(call.result.y) > call.result.n


BuiltWithDefault(i) == heap[i].kind = "BaseNotes" /\ heap[i].envelope = 0

\* C30: when object a was built with sample rate s1 and no envelope, and
\* object b is then built with a different sample rate s2 and no envelope,
\* the envelope of a still has sample rate s1, the sample rate of a.
C30_SecondObjectKeepsEnvelope ==
    \A a \in ObjIds, b \in ObjIds :
        (/\ last.op = "init_attrs" /\ last.id = b /\ a # b
         /\ BuiltWithDefault(a) /\ BuiltWithDefault(b)
         /\ heap[a].sr # heap[b].sr)
        => envelopes[heap[a].envelope].sr = heap[a].sr


IsCompare == call.fn = "Note.compare"

BothNumbered == IsNote(call.a) /\ IsNote(call.b)

\* the relation of the call, between the two MIDI numbers
NumsRelated ==
    IF call.rel = "==" THEN call.a.num = call.b.num
    ELSE IF call.rel = "<" THEN call.a.num < call.b.num
    ELSE IF call.rel = "<=" THEN call.a.num <= call.b.num
    ELSE IF call.rel = ">" THEN call.a.num > call.b.num
    ELSE call.a.num >= call.b.num

\* C23: two notes with MIDI numbers compare (==, <, <=, >, >=) as their
\* numbers do, and every comparison, == included, with an operand that has
\* no MIDI number (a Rest) fails.
C23_CompareByNum ==
    IsCompare =>
        /\ BothNumbered => (call.result.ok /\ call.result.v = NumsRelated)
        /\ ~BothNumbered => ~call.result.ok

\* C23, amended: two notes with MIDI numbers compare as their numbers do; an
\* ordering comparison (<, <=, >, >=) with a Rest operand fails; == with a
\* Rest operand returns a truth value, true exactly when both are Rests.
C23_OrderingFailsEqReturns ==
    IsCompare =>
        /\ BothNumbered => (call.result.ok /\ call.result.v = NumsRelated)
        /\ (~BothNumbered /\ call.rel # "==") => ~call.result.ok
        /\ (~BothNumbered /\ call.rel = "==") =>
               /\ call.result.ok
               /\ call.result.v = (IsRest(call.a) /\ IsRest(call.b))

C23_Witness ==
    /\ IsCompare /\ call.rel = "<"
    /\ BothNumbered /\ call.a.num < call.b.num
    /\ call.result.ok /\ call.result.v


\* C26: after Notes.transpose(k) or Track.transpose(k) every note the
\* container holds has its previous num + k, also when the container holds
\* the same Note object more than once.
C26_EachNoteMovedByK ==
    (last.op \in {"notes_transpose", "track_transpose"}) =>
        \A i \in ObjIds :
            (Occurrences(last.refs, i) >= 1 /\ IsNote(last.pre[i])) =>
                heap[i].num = last.pre[i].num + last.arg


\* C27: for every n in 0..127, with m = Note(n), Note(m.name, m.octave)
\* succeeds and has num = n, octave 0 (n = 12..23) and octave -1 (n = 0..11)
\* included.
C27_RebuiltFromNameOctave ==
    call.fn = "Note(m.name, m.octave)" =>
        (call.result.ok /\ call.result.obj.num = call.n)

\* C28: for every n in 0..127, Note(str(Note(n))) succeeds and has num = n,
\* n = 0..11, printed with octave -1, included.
C28_RebuiltFromStr ==
    call.fn = "Note(str(m))" =>
        (call.result.ok /\ call.result.obj.num = call.n)


\* C29: after Notes.transpose the derived attributes of the Notes object
\* agree with its notes: names[i] = notes[i].name, nums[i] = notes[i].num
\* and fullnames[i] = str(notes[i]) for every index i.
C29_DerivedAgree ==
    last.op = "notes_transpose" =>
        \A i \in 1..Len(notesObj.refs) :
            /\ notesObj.names[i] = heap[notesObj.refs[i]].name
            /\ notesObj.nums[i] = heap[notesObj.refs[i]].num
            /\ notesObj.fullnames[i] = NoteStr(heap[notesObj.refs[i]])

====
